---- MODULE Spec2Model ----
(***************************************************************************)
(* State-machine model of the spam detection service: the SpamDetector     *)
(* decision pipeline (origin check, validation, rule evaluation, analyzer  *)
(* call, synthesis), its IPBlocker blocklist, the GeminiSpamDetector       *)
(* adapter and the /validate-post path of SpamDetectionServer.             *)
(*                                                                         *)
(* Strings that the code inspects character by character (post text, IP    *)
(* addresses, CIDR ranges) are sequences of one-character strings.  A      *)
(* character outside ASCII is written as its code point, "U+1F389".        *)
(* JavaScript numbers that the code divides or compares are exact          *)
(* rationals <<n, d>> with d >= 0: d = 0 encodes NaN (n = 0) and the       *)
(* infinities (n = 1, n = -1).                                             *)
(***************************************************************************)
EXTENDS Integers, Sequences, FiniteSets, TLC

(***************************************************************************)
(* JavaScript numbers                                                      *)
(***************************************************************************)
RECURSIVE Gcd(_, _)
Gcd(a, b) == IF b = 0 THEN a ELSE Gcd(b, a % b)

Abs(x) == IF x < 0 THEN -x ELSE x

NaN == <<0, 0>>

IsNaN(q) == q = NaN

\* the number n / d in lowest terms
Num(n, d) ==
  IF d = 0 THEN (IF n = 0 THEN NaN ELSE IF n > 0 THEN <<1, 0>> ELSE <<-1, 0>>)
  ELSE LET g == Gcd(Abs(n), Abs(d))
           s == IF d < 0 THEN -1 ELSE 1
       IN  <<(s * n) \div g, (s * d) \div g>>

One == <<1, 1>>

Zero == <<0, 1>>

\* a < b on numbers; false when either is NaN, as in JavaScript
NumLess(a, b) ==
  /\ ~IsNaN(a)
  /\ ~IsNaN(b)
  /\ IF a[2] = 0 /\ b[2] = 0 THEN a[1] < b[1]
     ELSE IF a[2] = 0 THEN a[1] < 0
     ELSE IF b[2] = 0 THEN b[1] > 0
     ELSE a[1] * b[2] < b[1] * a[2]

MathMin(a, b) == IF IsNaN(a) \/ IsNaN(b) THEN NaN ELSE IF NumLess(b, a) THEN b ELSE a

MathMax(a, b) == IF IsNaN(a) \/ IsNaN(b) THEN NaN ELSE IF NumLess(a, b) THEN b ELSE a

(***************************************************************************)
(* Characters and strings                                                  *)
(***************************************************************************)
UpperSeq == <<"A","B","C","D","E","F","G","H","I","J","K","L","M","N","O","P","Q","R","S","T","U","V","W","X","Y","Z">>

LowerSeq == <<"a","b","c","d","e","f","g","h","i","j","k","l","m","n","o","p","q","r","s","t","u","v","w","x","y","z">>

DigitSeq == <<"0","1","2","3","4","5","6","7","8","9">>

Range(f) == {f[i] : i \in DOMAIN f}

Upper == Range(UpperSeq)

Lower == Range(LowerSeq)

Digit == Range(DigitSeq)

\* \w of a JavaScript regular expression
WordChar == Upper \cup Lower \cup Digit \cup {"_"}

\* \s of a JavaScript regular expression, as far as the alphabet goes
WhiteSpace == {" ", "\t", "\n"}

\* code points of the characters outside ASCII
CodePoint ==
  [c \in {"U+1F389", "U+1F525", "U+2600", "U+1F923"} |->
     IF c = "U+1F389" THEN 127881
     ELSE IF c = "U+1F525" THEN 128293
     ELSE IF c = "U+2600" THEN 9728
     ELSE 129315]

\* UTF-16 code units of one character: String.length counts these
Units(c) == IF c \in DOMAIN CodePoint /\ CodePoint[c] > 65535 THEN 2 ELSE 1

\* String.prototype.length
StrLength(s) == Len(s) + Cardinality({i \in DOMAIN s : Units(s[i]) = 2})

ToLowerChar(c) ==
  IF c \in Upper THEN LowerSeq[CHOOSE i \in DOMAIN UpperSeq : UpperSeq[i] = c] ELSE c

\* String.prototype.toLowerCase
ToLowerCase(s) == [i \in DOMAIN s |-> ToLowerChar(s[i])]

\* s without its leading blanks
RECURSIVE SkipBlanks(_)
SkipBlanks(s) == IF s # <<>> /\ Head(s) \in WhiteSpace THEN SkipBlanks(Tail(s)) ELSE s

\* s without its trailing blanks
RECURSIVE DropBlanks(_)
DropBlanks(s) ==
  IF s # <<>> /\ s[Len(s)] \in WhiteSpace THEN DropBlanks(SubSeq(s, 1, Len(s) - 1)) ELSE s

\* String.prototype.trim
Trim(s) == DropBlanks(SkipBlanks(s))

\* sub occurs in s at position i
MatchAt(s, sub, i) ==
  /\ i + Len(sub) - 1 <= Len(s)
  /\ \A k \in 1..Len(sub) : s[i + k - 1] = sub[k]

\* String.prototype.includes
Includes(s, sub) == \E i \in 1..(Len(s) + 1) : MatchAt(s, sub, i)

\* the elements of s that satisfy keep, in order
RECURSIVE SelectChars(_, _)
SelectChars(s, keep) ==
  IF s = <<>> THEN <<>>
  ELSE (IF Head(s) \in keep THEN <<Head(s)>> ELSE <<>>) \o SelectChars(Tail(s), keep)

(***************************************************************************)
(* The rule table (spam-rules.ts)                                          *)
(***************************************************************************)
spamKeywords ==
  << <<"f","r","e","e"," ","m","o","n","e","y">>,
     <<"c","l","i","c","k"," ","h","e","r","e">>,
     <<"l","i","m","i","t","e","d"," ","t","i","m","e">>,
     <<"a","c","t"," ","n","o","w">>,
     <<"g","u","a","r","a","n","t","e","e","d">>,
     <<"m","a","k","e"," ","m","o","n","e","y"," ","f","a","s","t">>,
     <<"w","o","r","k"," ","f","r","o","m"," ","h","o","m","e">>,
     <<"l","o","s","e"," ","w","e","i","g","h","t"," ","f","a","s","t">>,
     <<"m","i","r","a","c","l","e"," ","c","u","r","e">>,
     <<"b","u","y"," ","n","o","w">>,
     <<"s","p","e","c","i","a","l"," ","o","f","f","e","r">>,
     <<"c","o","n","g","r","a","t","u","l","a","t","i","o","n","s"," ","y","o","u"," ","w","o","n">>,
     <<"c","l","a","i","m"," ","y","o","u","r"," ","p","r","i","z","e">> >>

profanityWords ==
  << <<"f","u","c","k">>,
     <<"s","h","i","t">>,
     <<"b","i","t","c","h">>,
     <<"a","s","s","h","o","l","e">>,
     <<"d","a","m","n">>,
     <<"c","r","a","p">> >>

\* the character classes of emojiRegex (matched per code point, flag u)
IsEmoji(c) ==
  /\ c \in DOMAIN CodePoint
  /\ LET cp == CodePoint[c]
     IN  \/ cp >= 128512 /\ cp <= 128591
         \/ cp >= 127744 /\ cp <= 128511
         \/ cp >= 128640 /\ cp <= 128767
         \/ cp >= 127456 /\ cp <= 127487
         \/ cp >= 9728 /\ cp <= 9983
         \/ cp >= 9984 /\ cp <= 10175

\* number of characters of "http://" or "https://" at position i, 0 if neither
SchemeLen(s, i) ==
  IF MatchAt(s, <<"h","t","t","p","s",":","/","/">>, i) THEN 8
  ELSE IF MatchAt(s, <<"h","t","t","p",":","/","/">>, i) THEN 7
  ELSE 0

\* index of the last character of the run of non-blank characters starting at i
RECURSIVE RunEnd(_, _)
RunEnd(s, i) ==
  IF i + 1 <= Len(s) /\ s[i + 1] \notin WhiteSpace THEN RunEnd(s, i + 1) ELSE i

\* text.match(/https?:\/\/[^\s]+/g): the matches from position i on, left to right
RECURSIVE UrlMatches(_, _)
UrlMatches(s, i) ==
  IF i > Len(s) THEN <<>>
  ELSE LET n == SchemeLen(s, i)
       IN  IF n > 0 /\ i + n <= Len(s) /\ s[i + n] \notin WhiteSpace
           THEN LET e == RunEnd(s, i + n)
                IN  <<SubSeq(s, i, e)>> \o UrlMatches(s, e + 1)
           ELSE UrlMatches(s, i + 1)

\* number of matches of a marker character followed by \w+
TagCount(s, marker) ==
  Cardinality({i \in 1..(Len(s) - 1) : s[i] = marker /\ s[i + 1] \in WordChar})

excessive_caps(text) ==
  LET caps == Cardinality({i \in DOMAIN text : text[i] \in Upper})
  IN  /\ StrLength(text) > 0
      /\ 10 * caps > 7 * StrLength(text)
      /\ StrLength(text) > 10

repeated_characters(text) ==
  \E i \in 1..(Len(text) - 4) :
     /\ text[i] # "\n"
     /\ Units(text[i]) = 1
     /\ \A k \in 1..4 : text[i + k] = text[i]

excessive_emojis(text) ==
  LET emojiCount == Cardinality({i \in DOMAIN text : IsEmoji(text[i])})
  IN  emojiCount > 5 \/ (emojiCount > 2 /\ StrLength(text) < 50)

suspicious_urls(text) ==
  LET urls == UrlMatches(text, 1)
  IN  \/ Len(urls) > 2
      \/ \E k \in DOMAIN urls :
            \/ Includes(urls[k], <<"b","i","t",".","l","y">>)
            \/ Includes(urls[k], <<"t","i","n","y","u","r","l">>)
            \/ Includes(urls[k], <<"t",".","c","o">>)
            \/ StrLength(urls[k]) > 100

spam_keywords(text) ==
  LET lower == ToLowerCase(text)
  IN  \E k \in DOMAIN spamKeywords : Includes(lower, spamKeywords[k])

excessive_mentions(text) == TagCount(text, "@") > 3

excessive_hashtags(text) ==
  LET hashtags == TagCount(text, "#")
  IN  hashtags > 5 \/ (hashtags > 2 /\ StrLength(text) < 50)

profanity_filter(text) ==
  LET lower == ToLowerCase(text)
  IN  \E k \in DOMAIN profanityWords : Includes(lower, profanityWords[k])

too_short(text) == StrLength(Trim(text)) < 3

all_numbers(text) ==
  LET cleanText == SelectChars(text, Upper \cup Lower \cup Digit)
  IN  Len(cleanText) > 0 /\ \A i \in DOMAIN cleanText : cleanText[i] \in Digit

\* name, severity and description of the rules, in table order
spamRules ==
  << [name |-> "excessive_caps", severity |-> 3,
      description |-> "Post contains excessive capital letters"],
     [name |-> "repeated_characters", severity |-> 2,
      description |-> "Post contains repeated characters (5+ in a row)"],
     [name |-> "excessive_emojis", severity |-> 2,
      description |-> "Post contains excessive emojis"],
     [name |-> "suspicious_urls", severity |-> 5,
      description |-> "Post contains suspicious or excessive URLs"],
     [name |-> "spam_keywords", severity |-> 5,
      description |-> "Post contains spam keywords"],
     [name |-> "excessive_mentions", severity |-> 3,
      description |-> "Post contains excessive mentions"],
     [name |-> "excessive_hashtags", severity |-> 2,
      description |-> "Post contains excessive hashtags"],
     [name |-> "profanity_filter", severity |-> 3,
      description |-> "Post contains profanity"],
     [name |-> "too_short", severity |-> 1,
      description |-> "Post is too short to be meaningful"],
     [name |-> "all_numbers", severity |-> 2,
      description |-> "Post contains only numbers"] >>

\* rule.check(post) of the k-th rule
RuleCheck(k, text) ==
  CASE k = 1 -> excessive_caps(text)
    [] k = 2 -> repeated_characters(text)
    [] k = 3 -> excessive_emojis(text)
    [] k = 4 -> suspicious_urls(text)
    [] k = 5 -> spam_keywords(text)
    [] k = 6 -> excessive_mentions(text)
    [] k = 7 -> excessive_hashtags(text)
    [] k = 8 -> profanity_filter(text)
    [] k = 9 -> too_short(text)
    [] k = 10 -> all_numbers(text)

\* spamRules.filter(rule => rule.check(post)): the indices of the triggered rules
RECURSIVE TriggeredFrom(_, _)
TriggeredFrom(text, k) ==
  IF k > Len(spamRules) THEN <<>>
  ELSE (IF RuleCheck(k, text) THEN <<k>> ELSE <<>>) \o TriggeredFrom(text, k + 1)

\* spamRules.find in place of filter: only the first triggered rule
triggeredRules_FirstOnly(text) ==
  LET all == TriggeredFrom(text, 1)
  IN  IF all = <<>> THEN <<>> ELSE <<Head(all)>>

triggeredRules(text) == TriggeredFrom(text, 1)

\* triggeredRules.reduce((sum, rule) => sum + rule.severity, 0)
RECURSIVE SumSeverity(_)
SumSeverity(idx) ==
  IF idx = <<>> THEN 0 ELSE spamRules[Head(idx)].severity + SumSeverity(Tail(idx))

\* triggeredRules.map(rule => rule.description)
Descriptions(idx) == [i \in DOMAIN idx |-> spamRules[idx[i]].description]

(***************************************************************************)
(* IPBlocker (ip-blocker.ts): pure helpers                                 *)
(***************************************************************************)
HexDigit == Digit \cup {"a","b","c","d","e","f","A","B","C","D","E","F"}

\* String.prototype.split on a one-character separator
RECURSIVE Split(_, _)
Split(s, sep) ==
  LET at == {i \in DOMAIN s : s[i] = sep}
  IN  IF at = {} THEN <<s>>
      ELSE LET i == CHOOSE j \in at : \A k \in at : j <= k
           IN  <<SubSeq(s, 1, i - 1)>> \o Split(SubSeq(s, i + 1, Len(s)), sep)

DigitValue(c) == (CHOOSE i \in DOMAIN DigitSeq : DigitSeq[i] = c) - 1

\* value of a sequence of decimal digits
RECURSIVE DecValue(_)
DecValue(ds) ==
  IF ds = <<>> THEN 0 ELSE 10 * DecValue(SubSeq(ds, 1, Len(ds) - 1)) + DigitValue(ds[Len(ds)])

\* the longest prefix of s made of decimal digits
RECURSIVE DigitPrefix(_)
DigitPrefix(s) ==
  IF s # <<>> /\ Head(s) \in Digit THEN <<Head(s)>> \o DigitPrefix(Tail(s)) ELSE <<>>

\* parseInt(s, 10): leading blanks, an optional sign, then the digits up to the
\* first other character; NaN when there is no digit
ParseInt(s) ==
  LET t == SkipBlanks(s)
      neg == t # <<>> /\ Head(t) = "-"
      u == IF t # <<>> /\ Head(t) \in {"-", "+"} THEN Tail(t) ELSE t
      ds == DigitPrefix(u)
  IN  IF ds = <<>> THEN NaN
      ELSE IF neg THEN Num(-DecValue(ds), 1) ELSE Num(DecValue(ds), 1)

\* one octet of ipv4Regex: 25[0-5] | 2[0-4][0-9] | [01]?[0-9][0-9]?
IsOctet(part) ==
  /\ Len(part) \in 1..3
  /\ \A i \in DOMAIN part : part[i] \in Digit
  /\ DecValue(part) <= 255

\* /^(?:octet\.){3}octet$/
IsIPv4(ip) ==
  LET parts == Split(ip, ".")
  IN  Len(parts) = 4 /\ \A i \in 1..4 : IsOctet(parts[i])

\* /^(?:[0-9a-fA-F]{1,4}:){7}[0-9a-fA-F]{1,4}$|^::1$|^::$/
IsIPv6(ip) ==
  \/ ip = <<":", ":", "1">>
  \/ ip = <<":", ":">>
  \/ LET parts == Split(ip, ":")
     IN  /\ Len(parts) = 8
         /\ \A i \in 1..8 :
               /\ Len(parts[i]) \in 1..4
               /\ \A k \in DOMAIN parts[i] : parts[i][k] \in HexDigit

isValidIP(ip) == IsIPv4(ip) \/ IsIPv6(ip)

isValidCIDR(cidr) ==
  LET parts == Split(cidr, "/")
  IN  /\ Len(parts) = 2
      /\ isValidIP(parts[1])
      /\ LET maskNum == ParseInt(parts[2])
         IN  /\ ~IsNaN(maskNum)
             /\ IF "." \in Range(parts[1])
                THEN maskNum[1] >= 0 /\ maskNum[1] <= 32
                ELSE maskNum[1] >= 0 /\ maskNum[1] <= 128

\* 2^k
RECURSIVE Pow2(_)
Pow2(k) == IF k = 0 THEN 1 ELSE 2 * Pow2(k - 1)

\* ip.split('.').reduce((acc, octet) => (acc << 8) + parseInt(octet, 10), 0) >>> 0
\* The unsigned 32-bit result is kept as its two 16-bit halves <<high, low>>;
\* the 32-bit wrap of << and the final >>> 0 leave the value modulo 2^32.
RECURSIVE Ipv4Fold(_)
Ipv4Fold(parts) ==
  IF parts = <<>> THEN <<0, 0>>
  ELSE LET acc == Ipv4Fold(SubSeq(parts, 1, Len(parts) - 1))
           low == 256 * acc[2] + DecValue(DigitPrefix(parts[Len(parts)]))
       IN  <<(256 * acc[1] + (low \div 65536)) % 65536, low % 65536>>

ipv4ToNumber(ip) == Ipv4Fold(Split(ip, "."))

\* x & ((0xFFFFFFFF << count) >>> 0) for count in 0..31: x with its low count bits cleared
ClearLow(x, count) ==
  IF count <= 16 THEN <<x[1], x[2] - (x[2] % Pow2(count))>>
  ELSE <<x[1] - (x[1] % Pow2(count - 16)), 0>>

\* mask = (0xFFFFFFFF << (32 - maskBits)) >>> 0, where << takes its count modulo 32
isIPv4InRange(ip, network, maskBits) ==
  LET count == (32 - maskBits) % 32
  IN  ClearLow(ipv4ToNumber(ip), count) = ClearLow(ipv4ToNumber(network), count)

expandIPv6(ip) ==
  IF ip = <<":", ":">>
  THEN <<"0","0","0","0",":","0","0","0","0",":","0","0","0","0",":","0","0","0","0",":",
         "0","0","0","0",":","0","0","0","0",":","0","0","0","0",":","0","0","0","0">>
  ELSE IF ip = <<":", ":", "1">>
  THEN <<"0","0","0","0",":","0","0","0","0",":","0","0","0","0",":","0","0","0","0",":",
         "0","0","0","0",":","0","0","0","0",":","0","0","0","0",":","0","0","0","1">>
  ELSE ToLowerCase(ip)

\* String.prototype.substring(0, n)
Substring0(s, n) == SubSeq(s, 1, IF n < Len(s) THEN n ELSE Len(s))

isIPv6InRange(ip, network, maskBits) ==
  LET hexCharsToCheck == maskBits \div 4
  IN  Substring0(expandIPv6(ip), hexCharsToCheck)
        = Substring0(expandIPv6(network), hexCharsToCheck)

isIPInRange(ip, cidr) ==
  LET parts == Split(cidr, "/")
      network == parts[1]
      maskBits == ParseInt(parts[2])[1]
  IN  IF "." \in Range(ip) /\ "." \in Range(network)
      THEN isIPv4InRange(ip, network, maskBits)
      ELSE IF ":" \in Range(ip) /\ ":" \in Range(network)
      THEN isIPv6InRange(ip, network, maskBits)
      ELSE FALSE

\* index of the last range of the list that contains ip, 0 if none
FirstRange_LatestAdded(ip, ranges) ==
  LET hits == {i \in DOMAIN ranges : isIPInRange(ip, ranges[i])}
  IN  IF hits = {} THEN 0 ELSE CHOOSE i \in hits : \A j \in hits : j <= i

\* index of the first range of the list that contains ip, 0 if none
FirstRange(ip, ranges) ==
  LET hits == {i \in DOMAIN ranges : isIPInRange(ip, ranges[i])}
  IN  IF hits = {} THEN 0 ELSE CHOOSE i \in hits : \A j \in hits : i <= j

\* validateIP without the check of the address itself
validateIP_NoSyntaxCheck(ip, ips, ranges) ==
  IF ip \in ips
  THEN [isBlocked |-> TRUE, reason |-> "IP address is in blocklist", range |-> <<>>]
  ELSE LET k == FirstRange(ip, ranges)
       IN  IF k > 0
           THEN [isBlocked |-> TRUE, reason |-> "IP address is in blocked range: ",
                 range |-> ranges[k]]
           ELSE [isBlocked |-> FALSE, reason |-> "", range |-> <<>>]

\* IPBlocker.validateIP against the blocklist (ips, ranges); the reason of a
\* range match carries the matching range
validateIP(ip, ips, ranges) ==
  IF ip = <<>> \/ ~isValidIP(ip)
  THEN [isBlocked |-> FALSE, reason |-> "", range |-> <<>>]
  ELSE IF ip \in ips
  THEN [isBlocked |-> TRUE, reason |-> "IP address is in blocklist", range |-> <<>>]
  ELSE LET k == FirstRange(ip, ranges)
       IN  IF k > 0
           THEN [isBlocked |-> TRUE, reason |-> "IP address is in blocked range: ",
                 range |-> ranges[k]]
           ELSE [isBlocked |-> FALSE, reason |-> "", range |-> <<>>]

\* IPBlocker.addIP: what it returns and the exact-address set it leaves
addIP(ip, ips) ==
  IF ~isValidIP(ip)
  THEN [returned |-> FALSE, blockedIPs |-> ips]
  ELSE [returned |-> TRUE, blockedIPs |-> ips \cup {ip}]

\* removeIP that reports the deletion and leaves the entry in the set
removeIP_KeepsEntry(ip, ips) == [returned |-> ip \in ips, blockedIPs |-> ips]

\* IPBlocker.removeIP: Set.delete tells whether the address was there
removeIP(ip, ips) == [returned |-> ip \in ips, blockedIPs |-> ips \ {ip}]

\* addRange that pushes the range whether or not the list has it
addRange_AlwaysPush(cidr, ranges) ==
  IF ~isValidCIDR(cidr)
  THEN [returned |-> FALSE, blockedRanges |-> ranges]
  ELSE [returned |-> TRUE, blockedRanges |-> Append(ranges, cidr)]

\* IPBlocker.addRange
addRange(cidr, ranges) ==
  IF ~isValidCIDR(cidr)
  THEN [returned |-> FALSE, blockedRanges |-> ranges]
  ELSE [returned |-> TRUE,
        blockedRanges |-> IF cidr \in Range(ranges) THEN ranges
                          ELSE Append(ranges, cidr)]

\* IPBlocker.removeRange: indexOf finds the first occurrence, splice takes it out
removeRange(cidr, ranges) ==
  LET at == {i \in DOMAIN ranges : ranges[i] = cidr}
  IN  IF at = {} THEN [returned |-> FALSE, blockedRanges |-> ranges]
      ELSE LET index == CHOOSE i \in at : \A j \in at : i <= j
           IN  [returned |-> TRUE,
                blockedRanges |-> SubSeq(ranges, 1, index - 1)
                                    \o SubSeq(ranges, index + 1, Len(ranges))]

(***************************************************************************)
(* JavaScript values of a parsed provider response and their coercions     *)
(***************************************************************************)
RECURSIVE Join(_)
\* the string spelled by a sequence of characters
Join(chars) == IF chars = <<>> THEN "" ELSE Head(chars) \o Join(Tail(chars))

JBool(b) == [t |-> "bool", b |-> b, n |-> Zero, s |-> <<>>, l |-> <<>>]

JNum(q) == [t |-> "num", b |-> FALSE, n |-> q, s |-> <<>>, l |-> <<>>]

JStr(chars) == [t |-> "str", b |-> FALSE, n |-> Zero, s |-> chars, l |-> <<>>]

JList(items) == [t |-> "list", b |-> FALSE, n |-> Zero, s |-> <<>>, l |-> items]

JNull == [t |-> "null", b |-> FALSE, n |-> Zero, s |-> <<>>, l |-> <<>>]

JUndef == [t |-> "undef", b |-> FALSE, n |-> Zero, s |-> <<>>, l |-> <<>>]

\* Boolean(v)
ToBoolean(v) ==
  CASE v.t = "bool" -> v.b
    [] v.t = "num" -> ~IsNaN(v.n) /\ v.n[1] # 0
    [] v.t = "str" -> v.s # <<>>
    [] v.t = "list" -> TRUE
    [] OTHER -> FALSE

\* 10^k
RECURSIVE Pow10(_)
Pow10(k) == IF k = 0 THEN 1 ELSE 10 * Pow10(k - 1)

\* Number(s) of a string: blank is 0, a decimal literal is its value, else NaN
StringToNumber(chars) ==
  LET t == Trim(chars)
      neg == t # <<>> /\ Head(t) = "-"
      u == IF t # <<>> /\ Head(t) \in {"-", "+"} THEN Tail(t) ELSE t
      parts == Split(u, ".")
      allDigits(p) == \A i \in DOMAIN p : p[i] \in Digit
      sign == IF neg THEN -1 ELSE 1
  IN  IF t = <<>> THEN Zero
      ELSE IF Len(parts) = 1 /\ parts[1] # <<>> /\ allDigits(parts[1])
      THEN Num(sign * DecValue(parts[1]), 1)
      ELSE IF /\ Len(parts) = 2
              /\ allDigits(parts[1]) /\ allDigits(parts[2])
              /\ Len(parts[1]) + Len(parts[2]) > 0
      THEN Num(sign * (DecValue(parts[1]) * Pow10(Len(parts[2])) + DecValue(parts[2])),
               Pow10(Len(parts[2])))
      ELSE NaN

\* Number(v)
ToNumber(v) ==
  CASE v.t = "bool" -> IF v.b THEN One ELSE Zero
    [] v.t = "num" -> v.n
    [] v.t = "str" -> StringToNumber(v.s)
    [] v.t = "null" -> Zero
    [] v.t = "list" -> IF v.l = <<>> THEN Zero
                       ELSE IF Len(v.l) = 1 THEN StringToNumber(v.l[1]) ELSE NaN
    [] OTHER -> NaN

\* the decimal digits of r / d after the point, for 0 <= r < d
RECURSIVE FracDigits(_, _)
FracDigits(r, d) ==
  IF r = 0 THEN "" ELSE ToString((10 * r) \div d) \o FracDigits((10 * r) % d, d)

\* String(q) of a number with a finite decimal expansion
NumberToString(q) ==
  IF IsNaN(q) THEN "NaN"
  ELSE IF q[2] = 0 THEN (IF q[1] > 0 THEN "Infinity" ELSE "-Infinity")
  ELSE LET a == Abs(q[1])
           whole == ToString(a \div q[2])
           frac == FracDigits(a % q[2], q[2])
       IN  (IF q[1] < 0 THEN "-" ELSE "") \o whole \o (IF frac = "" THEN "" ELSE "." \o frac)

RECURSIVE JoinList(_)
\* Array.prototype.join(',') of a list of strings
JoinList(items) ==
  IF items = <<>> THEN ""
  ELSE IF Len(items) = 1 THEN Join(items[1])
  ELSE Join(Head(items)) \o "," \o JoinList(Tail(items))

\* String(v)
ToStringJS(v) ==
  CASE v.t = "bool" -> IF v.b THEN "true" ELSE "false"
    [] v.t = "num" -> NumberToString(v.n)
    [] v.t = "str" -> Join(v.s)
    [] v.t = "null" -> "null"
    [] v.t = "list" -> JoinList(v.l)
    [] OTHER -> "undefined"

(***************************************************************************)
(* GeminiSpamDetector (gemini-service.ts)                                  *)
(***************************************************************************)
\* process.env.GEMINI_API_KEY or a DetectionConfig.geminiApiKey that is not set
Undefined == "<undefined>"

Truthy(str) == str # Undefined /\ str # ""

\* constructor(apiKey): config.apiKey and whether genAI was created
GeminiSpamDetector(apiKey, env) ==
  LET key == IF Truthy(apiKey) THEN apiKey ELSE IF Truthy(env) THEN env ELSE ""
  IN  [apiKey |-> key, genAI |-> key # ""]

isConfigured(g) == g.genAI /\ g.apiKey # ""

\* GeminiSpamDetector.getConfig: the configuration with the key masked
GeminiGetConfig(g) ==
  [model |-> "gemini-1.5-flash",
   apiKey |-> IF g.apiKey # "" THEN Substring0(g.apiKey, 8) \o "..."
              ELSE "not configured"]

\* the result of the catch block of parseAIResponse
FallbackVerdict ==
  [isSpam |-> FALSE, confidence |-> Zero,
   reasoning |-> "Failed to analyze content with AI",
   categories |-> <<"analysis_error">>, severity |-> "low"]

\* a provider output: kind "text" has no {...} in it, kind "broken" has one that
\* JSON.parse rejects, kind "json" parses to an object with these five fields
RawText == [kind |-> "text", isSpam |-> JUndef, confidence |-> JUndef,
            reasoning |-> JUndef, categories |-> JUndef, severity |-> JUndef]

RawBroken == [RawText EXCEPT !.kind = "broken"]

RawJson(isSpam, confidence, reasoning, categories, severity) ==
  [kind |-> "json", isSpam |-> isSpam, confidence |-> confidence,
   reasoning |-> reasoning, categories |-> categories, severity |-> severity]

\* parseAIResponse without the clamp of the confidence
parseAIResponse_Unclamped(response) ==
  IF response.kind # "json" THEN FallbackVerdict
  ELSE LET num == ToNumber(response.confidence)
       IN  [isSpam |-> ToBoolean(response.isSpam),
            confidence |-> IF IsNaN(num) \/ num[1] = 0 THEN Zero ELSE num,
            reasoning |-> IF ToBoolean(response.reasoning)
                          THEN ToStringJS(response.reasoning)
                          ELSE "No reasoning provided",
            categories |-> IF response.categories.t = "list"
                           THEN [i \in DOMAIN response.categories.l |->
                                   Join(response.categories.l[i])]
                           ELSE <<>>,
            severity |-> IF response.severity.t = "str"
                            /\ Join(response.severity.s) \in {"low", "medium", "high"}
                         THEN Join(response.severity.s)
                         ELSE "low"]

parseAIResponse(response) ==
  IF response.kind # "json" THEN FallbackVerdict
  ELSE LET num == ToNumber(response.confidence)
           conf == IF IsNaN(num) \/ num[1] = 0 THEN Zero ELSE num
       IN  [isSpam |-> ToBoolean(response.isSpam),
            confidence |-> MathMax(Zero, MathMin(One, conf)),
            reasoning |-> IF ToBoolean(response.reasoning)
                          THEN ToStringJS(response.reasoning)
                          ELSE "No reasoning provided",
            categories |-> IF response.categories.t = "list"
                           THEN [i \in DOMAIN response.categories.l |->
                                   Join(response.categories.l[i])]
                           ELSE <<>>,
            severity |-> IF response.severity.t = "str"
                            /\ Join(response.severity.s) \in {"low", "medium", "high"}
                         THEN Join(response.severity.s)
                         ELSE "low"]

\* a value that is not there: no aiAnalysis in a result, null from analyzeSpam
Absent == [absent |-> TRUE]

\* analyzeSpam whose catch block answers with the fallback verdict instead of null
analyzeSpam_FallbackOnError(event) ==
  IF event.type = "error" THEN [threw |-> FALSE, value |-> FallbackVerdict]
  ELSE [threw |-> FALSE, value |-> parseAIResponse(event.raw)]

\* what analyzeSpam settles with once the provider call has settled: the provider
\* either answers with raw output or rejects (network, authentication, quota);
\* the try/catch of analyzeSpam turns a rejection into null
analyzeSpam(event) ==
  IF event.type = "error" THEN [threw |-> FALSE, value |-> Absent]
  ELSE [threw |-> FALSE, value |-> parseAIResponse(event.raw)]

(***************************************************************************)
(* SpamDetector (spam-detector.ts): pure parts                             *)
(***************************************************************************)
\* the configuration the constructor starts from, before ...config
DefaultConfig(env) ==
  [spamThreshold |-> 6, flagThreshold |-> 3, maxTextLength |-> 280,
   minTextLength |-> 1, enableIPBlocking |-> TRUE, enableAIDetection |-> FALSE,
   geminiApiKey |-> env]

\* a merge that puts every field that is not supplied back to its default
Merge_ResetsOthers(cfg, newConfig) ==
  [f \in DOMAIN cfg |->
     IF f \in DOMAIN newConfig THEN newConfig[f] ELSE DefaultConfig(Undefined)[f]]

\* { ...config, ...newConfig }
Merge(cfg, newConfig) ==
  [f \in DOMAIN cfg |-> IF f \in DOMAIN newConfig THEN newConfig[f] ELSE cfg[f]]

\* getConfig: a new object with the fields of the configuration; own tells
\* whether the object handed out is the detector's own
getConfig(cfg) == [object |-> cfg, own |-> FALSE]

\* post.text as a JavaScript value: t is typeof, v the characters
TextString(chars) == [t |-> "string", v |-> chars]

TextMissing == [t |-> "undefined", v |-> <<>>]

TextNumber(digits) == [t |-> "number", v |-> digits]

\* validatePost that compares the untrimmed length with minTextLength
validatePost_NoTrim(p, cfg) ==
  IF p.text.t # "string" \/ p.text.v = <<>>
  THEN <<"Post text is required and must be a string">>
  ELSE (IF StrLength(p.text.v) > cfg.maxTextLength
        THEN <<"Post exceeds maximum length of " \o ToString(cfg.maxTextLength)
                 \o " characters">>
        ELSE <<>>)
       \o
       (IF StrLength(p.text.v) < cfg.minTextLength
        THEN <<"Post is below minimum length of " \o ToString(cfg.minTextLength)
                 \o " characters">>
        ELSE <<>>)

\* validatePost: the list of violation messages
validatePost(p, cfg) ==
  IF p.text.t # "string" \/ p.text.v = <<>>
  THEN <<"Post text is required and must be a string">>
  ELSE (IF StrLength(p.text.v) > cfg.maxTextLength
        THEN <<"Post exceeds maximum length of " \o ToString(cfg.maxTextLength)
                 \o " characters">>
        ELSE <<>>)
       \o
       (IF StrLength(Trim(p.text.v)) < cfg.minTextLength
        THEN <<"Post is below minimum length of " \o ToString(cfg.minTextLength)
                 \o " characters">>
        ELSE <<>>)

Decision(isSpam, confidence, reasons, action, aiAnalysis) ==
  [isSpam |-> isSpam, confidence |-> confidence, reasons |-> reasons,
   action |-> action, aiAnalysis |-> aiAnalysis]

\* Confidence that takes the analyzer's confidence whatever its verdict
Confidence_AnyVerdict(totalSeverity, aiAnalysis, cfg) ==
  LET confidence == MathMin(Num(totalSeverity, cfg.spamThreshold), One)
  IN  IF aiAnalysis # Absent
      THEN MathMax(confidence, aiAnalysis.confidence)
      ELSE confidence

\* lines 76-81: the confidence of a synthesized decision
Confidence(totalSeverity, aiAnalysis, cfg) ==
  LET confidence == MathMin(Num(totalSeverity, cfg.spamThreshold), One)
  IN  IF aiAnalysis # Absent /\ aiAnalysis.isSpam
      THEN MathMax(confidence, aiAnalysis.confidence)
      ELSE confidence

\* line 87: the analyzer overrides the rules
Overrides(aiAnalysis) ==
  aiAnalysis # Absent /\ aiAnalysis.isSpam /\ NumLess(Num(8, 10), aiAnalysis.confidence)

\* lines 83-84 and 86-102: isSpam of a synthesized decision
IsSpam(totalSeverity, aiAnalysis, cfg) ==
  IF Overrides(aiAnalysis) THEN TRUE ELSE totalSeverity >= cfg.flagThreshold

\* Action that rejects only above spamThreshold when the analyzer does not override
Action_StrictThreshold(totalSeverity, aiAnalysis, cfg) ==
  IF Overrides(aiAnalysis)
  THEN IF aiAnalysis.severity = "high" THEN "reject"
       ELSE IF totalSeverity >= cfg.spamThreshold THEN "reject" ELSE "flag"
  ELSE IF totalSeverity > cfg.spamThreshold THEN "reject"
       ELSE IF totalSeverity >= cfg.flagThreshold THEN "flag"
       ELSE "allow"

\* Action that adds the analyzer's severity (high 6, medium 4, low 2) to the rule
\* score when the verdict marks spam with confidence > 0.7
Action_AddsAnalyzerSeverity(totalSeverity, aiAnalysis, cfg) ==
  LET aiSeverity ==
        IF aiAnalysis # Absent /\ aiAnalysis.isSpam
           /\ NumLess(Num(7, 10), aiAnalysis.confidence)
        THEN (IF aiAnalysis.severity = "high" THEN 6
              ELSE IF aiAnalysis.severity = "medium" THEN 4 ELSE 2)
        ELSE 0
      total == totalSeverity + aiSeverity
  IN  IF Overrides(aiAnalysis)
      THEN IF aiAnalysis.severity = "high" THEN "reject"
           ELSE IF total >= cfg.spamThreshold THEN "reject" ELSE "flag"
      ELSE IF total >= cfg.spamThreshold THEN "reject"
           ELSE IF total >= cfg.flagThreshold THEN "flag"
           ELSE "allow"

\* Action that leaves the analyzer's severity out of the override
Action_IgnoresSeverity(totalSeverity, aiAnalysis, cfg) ==
  IF Overrides(aiAnalysis)
  THEN IF totalSeverity >= cfg.spamThreshold THEN "reject" ELSE "flag"
  ELSE IF totalSeverity >= cfg.spamThreshold THEN "reject"
       ELSE IF totalSeverity >= cfg.flagThreshold THEN "flag"
       ELSE "allow"

\* lines 86-102: the action of a synthesized decision
Action(totalSeverity, aiAnalysis, cfg) ==
  IF Overrides(aiAnalysis)
  THEN IF aiAnalysis.severity = "high" THEN "reject"
       ELSE IF totalSeverity >= cfg.spamThreshold THEN "reject" ELSE "flag"
  ELSE IF totalSeverity >= cfg.spamThreshold THEN "reject"
       ELSE IF totalSeverity >= cfg.flagThreshold THEN "flag"
       ELSE "allow"

\* Synthesize that takes flagThreshold from the configuration of construction
\* time and spamThreshold from cfg
Synthesize_TornThresholds(totalSeverity, reasons, aiAnalysis, cfg) ==
  Decision(IsSpam(totalSeverity, aiAnalysis, DefaultConfig(Undefined)),
           Confidence(totalSeverity, aiAnalysis, cfg),
           reasons,
           Action(totalSeverity, aiAnalysis, cfg),
           aiAnalysis)

\* lines 75-110: the decision from the rule score, the reasons and the verdict
Synthesize(totalSeverity, reasons, aiAnalysis, cfg) ==
  Decision(IsSpam(totalSeverity, aiAnalysis, cfg),
           Confidence(totalSeverity, aiAnalysis, cfg),
           reasons,
           Action(totalSeverity, aiAnalysis, cfg),
           aiAnalysis)

\* lines 27-38: whether the blocklist is consulted for the post
OriginChecked(p, cfg) == cfg.enableIPBlocking /\ p.clientIP # <<>>

\* reason || 'IP address is blocked', the range of a range match spelled out
BlockReason(ipValidation) ==
  IF ipValidation.reason = "" THEN "IP address is blocked"
  ELSE ipValidation.reason \o Join(ipValidation.range)

\* lines 31-36: the return of the origin check
BlockedRun(ipValidation) ==
  [pc |-> "done", stages |-> {"origin"}, totalSeverity |-> 0, reasons |-> <<>>,
   result |-> Decision(TRUE, One, <<BlockReason(ipValidation)>>, "reject", Absent)]

\* lines 42-47: the return of the validation
InvalidRun(violations, seen) ==
  [pc |-> "done", stages |-> seen \cup {"validation"}, totalSeverity |-> 0,
   reasons |-> <<>>, result |-> Decision(TRUE, One, violations, "reject", Absent)]

\* ValidRun that calls the analyzer whenever the adapter is configured
ValidRun_WheneverConfigured(p, cfg, g, seen) ==
  LET triggered == triggeredRules(p.text.v)
      total == SumSeverity(triggered)
      descs == Descriptions(triggered)
  IN  IF isConfigured(g)
      THEN [pc |-> "awaiting", stages |-> seen \cup {"validation", "rules", "analyzer"},
            totalSeverity |-> total, reasons |-> descs, result |-> Absent]
      ELSE [pc |-> "done", stages |-> seen \cup {"validation", "rules", "synthesis"},
            totalSeverity |-> total, reasons |-> descs,
            result |-> Synthesize(total, descs, Absent, cfg)]

\* lines 50-58 and 75-110: rule evaluation, then the await of analyzeSpam if the
\* analyzer is enabled and configured, else synthesis and return
ValidRun(p, cfg, g, seen) ==
  LET triggered == triggeredRules(p.text.v)
      total == SumSeverity(triggered)
      descs == Descriptions(triggered)
  IN  IF cfg.enableAIDetection /\ isConfigured(g)
      THEN [pc |-> "awaiting", stages |-> seen \cup {"validation", "rules", "analyzer"},
            totalSeverity |-> total, reasons |-> descs, result |-> Absent]
      ELSE [pc |-> "done", stages |-> seen \cup {"validation", "rules", "synthesis"},
            totalSeverity |-> total, reasons |-> descs,
            result |-> Synthesize(total, descs, Absent, cfg)]

\* detectSpam that validates the post before it looks at the origin
detectSpamSync_ValidatesFirst(p, cfg, ips, ranges, g) ==
  LET checked == OriginChecked(p, cfg)
      ipValidation == validateIP(p.clientIP, ips, ranges)
      violations == validatePost(p, cfg)
  IN  IF violations # <<>> THEN InvalidRun(violations, {})
      ELSE IF checked /\ ipValidation.isBlocked THEN BlockedRun(ipValidation)
      ELSE ValidRun(p, cfg, g, IF checked THEN {"origin"} ELSE {})

\* lines 26-58: detectSpam up to its return or up to the await of analyzeSpam
detectSpamSync(p, cfg, ips, ranges, g) ==
  LET checked == OriginChecked(p, cfg)
      ipValidation == validateIP(p.clientIP, ips, ranges)
      seen == IF checked THEN {"origin"} ELSE {}
      violations == validatePost(p, cfg)
  IN  IF checked /\ ipValidation.isBlocked THEN BlockedRun(ipValidation)
      ELSE IF violations # <<>> THEN InvalidRun(violations, seen)
      ELSE ValidRun(p, cfg, g, seen)

\* lines 57-73: aiAnalysis once analyzeSpam has settled with r; a throw is caught
AiAnalysis(r) == IF r.threw THEN Absent ELSE r.value

\* ReasonsAfter that adds the analyzer's reason only above the override level 0.8
ReasonsAfter_OverrideLevel(rs, r) ==
  IF ~r.threw /\ r.value # Absent /\ r.value.isSpam
     /\ NumLess(Num(8, 10), r.value.confidence)
  THEN Append(rs, "AI detected spam: " \o r.value.reasoning)
  ELSE rs

\* lines 62-68: the reasons after the analyzer call
ReasonsAfter(rs, r) ==
  IF ~r.threw /\ r.value # Absent /\ r.value.isSpam
     /\ NumLess(Num(7, 10), r.value.confidence)
  THEN Append(rs, "AI detected spam: " \o r.value.reasoning)
  ELSE rs

\* lines 58-110: detectSpam from the settling of analyzeSpam to its return
detectSpamResume(total, rs, r, cfg) ==
  Synthesize(total, ReasonsAfter(rs, r), AiAnalysis(r), cfg)

\* extractClientIP that looks at x-real-ip before x-forwarded-for
extractClientIP_RealIPFirst(req) ==
  IF req.realIP # <<>> THEN req.realIP
  ELSE IF req.forwarded # <<>> THEN Trim(Split(req.forwarded, ",")[1])
  ELSE IF req.cfConnectingIP # <<>> THEN req.cfConnectingIP
  ELSE req.remoteAddress

\* IPBlocker.extractClientIP: <<>> stands for a header that is not sent and for null
extractClientIP(req) ==
  IF req.forwarded # <<>> THEN Trim(Split(req.forwarded, ",")[1])
  ELSE IF req.realIP # <<>> THEN req.realIP
  ELSE IF req.cfConnectingIP # <<>> THEN req.cfConnectingIP
  ELSE req.remoteAddress

(***************************************************************************)
(* Inputs                                                                  *)
(***************************************************************************)
\* administrative calls (updateConfig and blocklist changes) in one behaviour
MaxAdmin == 2

IpA == <<"1","9","2",".","1","6","8",".","1",".","1">>

IpB == <<"1","0",".","0",".","0",".","5">>

IpBad == <<"i","n","v","a","l","i","d","-","i","p">>

RangeA == <<"1","9","2",".","1","6","8",".","1",".","0","/","2","4">>

RangeB == <<"1","0",".","0",".","0",".","0","/","8">>

RangeBad == <<"1","9","2",".","1","6","8",".","1",".","0","/","3","3">>

\* calls made on an IPBlocker used on its own in one behaviour
MaxOps == 4

IpOver == <<"1","9","2",".","1","6","8",".","1",".","2","5","6">>

RangeWide == <<"1","9","2",".","1","6","8",".","0",".","0","/","1","6">>

RangeAll == <<"0",".","0",".","0",".","0","/","0">>

RangeLoose == <<"1","9","2",".","1","6","8",".","1",".","0","/","2","4","a","b","c">>

RangeBare == <<"1","9","2",".","1","6","8",".","1",".","0">>

Range6 == <<":",":","1","/","1","2","8">>

Ip6Upper == <<"2","0","0","1",":","D","B","8",":","0",":","0",":","0",":","0",":","0",":","1">>

\* the arguments of addIP and addRange on an IPBlocker used on its own
BlockerIPs == {IpA, IpOver, Ip6Upper}

BlockerRanges == {RangeA, RangeWide, RangeAll, RangeLoose, RangeBad, RangeBare, Range6}

TextHi == <<"H","i">>

TextBlank == <<" "," ">>

TextClean == <<"N","i","c","e"," ","d","a","y"," ","a","t"," ","t","h","e"," ","p","a","r","k">>

TextLoud == <<"T","H","I","S"," ","I","S"," ","L","O","U","D"," ","T","E","X","T">>

TextSpam == <<"F","R","E","E"," ","M","O","N","E","Y"," ","N","O","W">>

TextLong == [i \in 1..300 |-> "A"]

Texts ==
  { TextMissing, TextNumber(<<"1","2","3">>), TextString(<<>>), TextString(TextBlank),
    TextString(TextHi), TextString(TextClean), TextString(TextLoud),
    TextString(TextSpam), TextString(TextLong) }

\* the posts handed to detectSpam directly
Posts == [text : Texts, clientIP : {<<>>, IpA, IpB}]

\* the requests sent to POST /validate-post
Requests ==
  [forwarded : {<<>>, <<"1","9","2",".","1","6","8",".","1",".","1",","," ","1","0",".","0",".","0",".","5">>},
   realIP : {<<>>, IpB},
   cfConnectingIP : {<<>>},
   remoteAddress : {<<>>, IpB},
   text : {TextMissing, TextString(TextClean), TextString(TextSpam)}]

\* process.env.GEMINI_API_KEY
EnvKeys == {Undefined, "env-key"}

\* the argument of new SpamDetector(config) in a program that uses the class
InitConfigs ==
  { <<>>,
    [enableIPBlocking |-> FALSE],
    [spamThreshold |-> 15, flagThreshold |-> 10],
    [enableAIDetection |-> TRUE, geminiApiKey |-> "test-key"] }

\* the arguments of updateConfig
NewConfigs ==
  { [spamThreshold |-> 0],
    [spamThreshold |-> -1],
    [flagThreshold |-> 0],
    [flagThreshold |-> 10],
    [spamThreshold |-> 1, flagThreshold |-> 1],
    [maxTextLength |-> 10],
    [minTextLength |-> 3],
    [enableIPBlocking |-> FALSE],
    [enableAIDetection |-> TRUE],
    [enableAIDetection |-> TRUE, geminiApiKey |-> "invalid-key"],
    [geminiApiKey |-> ""] }

Spam(conf, severity) ==
  RawJson(JBool(TRUE), JNum(conf), JStr(<<"s","p","a","m">>),
          JList(<<<<"s","c","a","m">>>>), JStr(severity))

\* the values a field of the provider's JSON object may hold
ParserFields ==
  [isSpam : {JBool(TRUE), JBool(FALSE), JStr(<<"t","r","u","e">>), JNum(Zero), JUndef},
   confidence : {JNum(Num(9, 10)), JNum(Num(3, 2)), JNum(Num(-1, 2)),
                 JStr(<<"1",".","5">>), JStr(<<"a","b","c">>), JBool(TRUE), JNull, JUndef},
   reasoning : {JStr(<<"s","p","a","m">>), JStr(<<>>), JNum(Num(42, 1)),
                JList(<< <<"a">>, <<"b">> >>), JNull},
   categories : {JList(<< <<"s","c","a","m">> >>), JList(<<>>),
                 JStr(<<"n","o","t","-","a","n","-","a","r","r","a","y">>), JUndef},
   severity : {JStr(<<"h","i","g","h">>), JStr(<<"m","e","d","i","u","m">>),
               JStr(<<"l","o","w">>), JStr(<<"H","I","G","H">>),
               JStr(<<"i","n","v","a","l","i","d">>), JNum(One), JUndef}]

\* the outputs handed to parseAIResponse when it is called on its own
ParserInputs ==
  {RawText, RawBroken}
    \cup {RawJson(f.isSpam, f.confidence, f.reasoning, f.categories, f.severity) :
            f \in ParserFields}

\* the header names extractClientIP looks at
HeaderNames == {"x-forwarded-for", "x-real-ip", "cf-connecting-ip"}

\* the requests handed to extractClientIP when it is called on its own: sent holds
\* the headers the request carries, and a header that is carried may be empty; a
\* missing header, an empty one and a missing remote address are all <<>>, as the
\* code tells them apart by truthiness only
ExtractRequests ==
  { req \in [forwarded : {<<>>, IpA,
                          <<"1","9","2",".","1","6","8",".","1",".","1",","," ","1","0",".","0",".","0",".","5">>,
                          <<",","1","0",".","0",".","0",".","5">>},
             realIP : {<<>>, IpB},
             cfConnectingIP : {<<>>, IpA},
             remoteAddress : {<<>>, IpB, <<":",":","1">>},
             sent : SUBSET HeaderNames] :
      /\ "x-forwarded-for" \notin req.sent => req.forwarded = <<>>
      /\ "x-real-ip" \notin req.sent => req.realIP = <<>>
      /\ "cf-connecting-ip" \notin req.sent => req.cfConnectingIP = <<>> }

\* what a caller writes into the object it got from getConfig
CopyChanges == {[spamThreshold |-> 99], [enableIPBlocking |-> FALSE, geminiApiKey |-> "mine"]}

\* what the provider may answer
RawOutputs ==
  { RawText,
    RawBroken,
    Spam(Num(9, 10), <<"h","i","g","h">>),
    Spam(Num(95, 100), <<"m","e","d","i","u","m">>),
    Spam(Num(8, 10), <<"h","i","g","h">>),
    Spam(Num(75, 100), <<"h","i","g","h">>),
    Spam(Num(1, 2), <<"l","o","w">>),
    RawJson(JBool(FALSE), JNum(Num(9, 10)), JStr(<<"o","k">>), JList(<<>>),
            JStr(<<"h","i","g","h">>)),
    RawJson(JStr(<<"t","r","u","e">>), JStr(<<"1",".","5">>), JNull,
            JStr(<<"n","o","t","-","a","n","-","a","r","r","a","y">>),
            JStr(<<"i","n","v","a","l","i","d">>)) }

(***************************************************************************)
(* State                                                                   *)
(***************************************************************************)
VARIABLES
  host,           \* who owns the detector: "library" (a program that calls the
                  \* SpamDetector itself) or "server" (SpamDetectionServer)
  config,         \* SpamDetector.config
  gemini,         \* SpamDetector.geminiDetector
  blockedIPs,     \* IPBlocker.blocklist.blockedIPs
  blockedRanges,  \* IPBlocker.blocklist.blockedRanges
  pc,             \* the call in progress: idle, awaiting (suspended in analyzeSpam),
                  \* hung (the provider never settles), done
  post,           \* the post of the call
  totalSeverity,  \* local of detectSpam
  reasons,        \* local of detectSpam
  answer,         \* what the provider call settled with, Absent before
  stages,         \* the stages the call has run
  result,         \* the SpamDetectionResult the call returned
  status,         \* the HTTP status of the response, 0 when there is none
  nAdmin,         \* administrative calls made so far
  log,            \* the calls made on an IPBlocker used on its own, each with
                  \* what it returned
  verdict,        \* what parseAIResponse returned when called on its own
  copy            \* the object a caller got from getConfig, as the caller left it

vars ==
  <<host, config, gemini, blockedIPs, blockedRanges, pc, post, totalSeverity,
    reasons, answer, stages, result, status, nAdmin, log, verdict, copy>>

callVars == <<pc, post, totalSeverity, reasons, answer, stages, result, status>>

NoPost == [text |-> TextMissing, clientIP |-> <<>>]

\* new SpamDetector(config) in a library program, new SpamDetector() in the server
Init ==
  /\ host \in {"library", "server"}
  /\ \E env \in EnvKeys, c \in (IF host = "server" THEN {<<>>} ELSE InitConfigs) :
        /\ config = Merge(DefaultConfig(env), c)
        /\ gemini = GeminiSpamDetector(Merge(DefaultConfig(env), c).geminiApiKey, env)
  /\ blockedIPs = {}
  /\ blockedRanges = <<>>
  /\ pc = "idle"
  /\ post = NoPost
  /\ totalSeverity = 0
  /\ reasons = <<>>
  /\ answer = Absent
  /\ stages = {}
  /\ result = Absent
  /\ status = 0
  /\ nAdmin = 0
  /\ log = <<>>
  /\ verdict = Absent
  /\ copy = Absent

(***************************************************************************)
(* The decision pipeline.  detectSpam reads the configuration, the         *)
(* blocklist and the adapter and writes none of them, so what a call does  *)
(* depends only on the administrative calls made before it and while it is *)
(* suspended: a behaviour follows one call.                                *)
(***************************************************************************)
\* detectSpam(p) runs to its return or to the await of the analyzer
Begin(p) ==
  \E run \in {detectSpamSync(p, config, blockedIPs, blockedRanges, gemini)} :
      /\ pc' = run.pc
      /\ post' = p
      /\ totalSeverity' = run.totalSeverity
      /\ reasons' = run.reasons
      /\ answer' = Absent
      /\ stages' = run.stages
      /\ result' = run.result
      /\ status' = IF host = "server" /\ run.pc = "done" THEN 200 ELSE 0

\* a program invokes detector.detectSpam(p)
DetectSpam(p) ==
  /\ host = "library"
  /\ pc = "idle"
  /\ Begin(p)
  /\ UNCHANGED <<host, log, verdict, copy, config, gemini, blockedIPs, blockedRanges, nAdmin>>

\* POST /validate-post: the blocking middleware, then the route handler
ValidatePost(req) ==
  /\ host = "server"
  /\ pc = "idle"
  /\ LET clientIP == extractClientIP(req)
         ipValidation == validateIP(clientIP, blockedIPs, blockedRanges)
     IN  IF clientIP # <<>> /\ ipValidation.isBlocked
         THEN /\ pc' = "done"
              /\ post' = [text |-> req.text, clientIP |-> clientIP]
              /\ totalSeverity' = 0
              /\ reasons' = <<>>
              /\ answer' = Absent
              /\ stages' = {"middleware"}
              /\ result' = Absent
              /\ status' = 403
         ELSE Begin([text |-> req.text, clientIP |-> clientIP])
  /\ UNCHANGED <<host, log, verdict, copy, config, gemini, blockedIPs, blockedRanges, nAdmin>>

\* analyzeSpam settles and detectSpam runs on to its return
Settle(event) ==
  /\ pc = "awaiting"
  /\ pc' = "done"
  /\ answer' = event
  /\ reasons' = ReasonsAfter(reasons, analyzeSpam(event))
  /\ result' = detectSpamResume(totalSeverity, reasons, analyzeSpam(event), config)
  /\ stages' = stages \cup {"synthesis"}
  /\ status' = IF host = "server" THEN 200 ELSE 0
  /\ UNCHANGED <<host, log, verdict, copy, config, gemini, blockedIPs, blockedRanges, post, totalSeverity, nAdmin>>

\* the provider answers
ProviderResponds(raw) == Settle([type |-> "response", raw |-> raw])

\* the provider call rejects
ProviderFails == Settle([type |-> "error", raw |-> RawText])

\* the provider call never settles; nothing in the code cancels it or times it out
ProviderHangs ==
  /\ pc = "awaiting"
  /\ pc' = "hung"
  /\ UNCHANGED <<host, log, verdict, copy, config, gemini, blockedIPs, blockedRanges, post, totalSeverity,
                 reasons, answer, stages, result, status, nAdmin>>

(***************************************************************************)
(* Administration: updateConfig and the blocklist, called by the program   *)
(* or through PUT /config, POST /blocked-ips and DELETE /blocked-ips       *)
(***************************************************************************)
\* this.config becomes a new object: one handed out before is the configuration
\* no longer
UpdateConfig(newConfig) ==
  /\ nAdmin < MaxAdmin
  /\ nAdmin' = nAdmin + 1
  /\ config' = Merge(config, newConfig)
  /\ gemini' = IF "geminiApiKey" \in DOMAIN newConfig /\ Truthy(newConfig.geminiApiKey)
               THEN GeminiSpamDetector(newConfig.geminiApiKey, Undefined)
               ELSE gemini
  /\ copy' = IF copy = Absent THEN Absent ELSE [copy EXCEPT !.own = FALSE]
  /\ UNCHANGED <<host, log, verdict, blockedIPs, blockedRanges>>
  /\ UNCHANGED callVars

AddIP(ip) ==
  /\ nAdmin < MaxAdmin
  /\ nAdmin' = nAdmin + 1
  /\ blockedIPs' = addIP(ip, blockedIPs).blockedIPs
  /\ UNCHANGED <<host, log, verdict, copy, config, gemini, blockedRanges>>
  /\ UNCHANGED callVars

RemoveIP(ip) ==
  /\ nAdmin < MaxAdmin
  /\ nAdmin' = nAdmin + 1
  /\ blockedIPs' = removeIP(ip, blockedIPs).blockedIPs
  /\ UNCHANGED <<host, log, verdict, copy, config, gemini, blockedRanges>>
  /\ UNCHANGED callVars

AddRange(cidr) ==
  /\ nAdmin < MaxAdmin
  /\ nAdmin' = nAdmin + 1
  /\ blockedRanges' = addRange(cidr, blockedRanges).blockedRanges
  /\ UNCHANGED <<host, log, verdict, copy, config, gemini, blockedIPs>>
  /\ UNCHANGED callVars

RemoveRange(cidr) ==
  /\ nAdmin < MaxAdmin
  /\ nAdmin' = nAdmin + 1
  /\ blockedRanges' = removeRange(cidr, blockedRanges).blockedRanges
  /\ UNCHANGED <<host, log, verdict, copy, config, gemini, blockedIPs>>
  /\ UNCHANGED callVars

\* IPBlocker.clearAll, which no route of the server calls
ClearAll ==
  /\ host = "library"
  /\ nAdmin < MaxAdmin
  /\ nAdmin' = nAdmin + 1
  /\ blockedIPs' = {}
  /\ blockedRanges' = <<>>
  /\ UNCHANGED <<host, log, verdict, copy, config, gemini>>
  /\ UNCHANGED callVars

Next ==
  \/ \E p \in Posts : DetectSpam(p)
  \/ \E req \in Requests : ValidatePost(req)
  \/ \E raw \in RawOutputs : ProviderResponds(raw)
  \/ ProviderFails
  \/ ProviderHangs
  \/ \E c \in NewConfigs : UpdateConfig(c)
  \/ \E ip \in {IpA, IpBad} : AddIP(ip)
  \/ \E ip \in {IpA} : RemoveIP(ip)
  \/ \E cidr \in {RangeA, RangeB, RangeBad} : AddRange(cidr)
  \/ \E cidr \in {RangeA} : RemoveRange(cidr)
  \/ ClearAll

Spec == Init /\ [][Next]_vars

\* the event loop runs whatever is ready: a settled provider call resumes its
\* detectSpam, a pending one settles or stays pending for ever
LiveSpec == Spec /\ WF_vars(Next)

(***************************************************************************)
(* An IPBlocker used on its own: new IPBlocker(), then any calls of its    *)
(* methods.  No detector exists in this program; its variables keep the    *)
(* values of a default one and nothing changes them.                       *)
(***************************************************************************)
BlockerInit ==
  /\ host = "blocker"
  /\ config = DefaultConfig(Undefined)
  /\ gemini = GeminiSpamDetector(Undefined, Undefined)
  /\ blockedIPs = {}
  /\ blockedRanges = <<>>
  /\ pc = "idle"
  /\ post = NoPost
  /\ totalSeverity = 0
  /\ reasons = <<>>
  /\ answer = Absent
  /\ stages = {}
  /\ result = Absent
  /\ status = 0
  /\ nAdmin = 0
  /\ log = <<>>
  /\ verdict = Absent
  /\ copy = Absent

\* one call on the blocker: it leaves the blocklist (ips, ranges) and is logged
BlockerCall(op, arg, returned, ips, ranges) ==
  /\ host = "blocker"
  /\ Len(log) < MaxOps
  /\ log' = Append(log, [op |-> op, arg |-> arg, returned |-> returned])
  /\ blockedIPs' = ips
  /\ blockedRanges' = ranges
  /\ UNCHANGED <<host, config, gemini, nAdmin, verdict, copy>>
  /\ UNCHANGED callVars

CallAddIP(ip) ==
  LET r == addIP(ip, blockedIPs)
  IN  BlockerCall("addIP", ip, r.returned, r.blockedIPs, blockedRanges)

CallRemoveIP(ip) ==
  LET r == removeIP(ip, blockedIPs)
  IN  BlockerCall("removeIP", ip, r.returned, r.blockedIPs, blockedRanges)

CallAddRange(cidr) ==
  LET r == addRange(cidr, blockedRanges)
  IN  BlockerCall("addRange", cidr, r.returned, blockedIPs, r.blockedRanges)

CallRemoveRange(cidr) ==
  LET r == removeRange(cidr, blockedRanges)
  IN  BlockerCall("removeRange", cidr, r.returned, blockedIPs, r.blockedRanges)

\* IPBlocker.clearAll returns nothing
CallClearAll == BlockerCall("clearAll", <<>>, TRUE, {}, <<>>)

BlockerNext ==
  \/ \E ip \in BlockerIPs : CallAddIP(ip)
  \/ \E ip \in {IpA} : CallRemoveIP(ip)
  \/ \E cidr \in BlockerRanges : CallAddRange(cidr)
  \/ \E cidr \in {RangeA, RangeWide} : CallRemoveRange(cidr)
  \/ CallClearAll

BlockerSpec == BlockerInit /\ [][BlockerNext]_vars

(***************************************************************************)
(* parseAIResponse called on its own with one provider output, as the      *)
(* tests of GeminiSpamDetector do.  Nothing else runs in this program.     *)
(***************************************************************************)
ParserInit ==
  /\ host = "parser"
  /\ config = DefaultConfig(Undefined)
  /\ gemini = GeminiSpamDetector("test-api-key", Undefined)
  /\ blockedIPs = {}
  /\ blockedRanges = <<>>
  /\ pc = "idle"
  /\ post = NoPost
  /\ totalSeverity = 0
  /\ reasons = <<>>
  /\ answer \in {[type |-> "response", raw |-> raw] : raw \in ParserInputs}
  /\ stages = {}
  /\ result = Absent
  /\ status = 0
  /\ nAdmin = 0
  /\ log = <<>>
  /\ verdict = Absent
  /\ copy = Absent

ParseAIResponse ==
  /\ host = "parser"
  /\ verdict = Absent
  /\ verdict' = parseAIResponse(answer.raw)
  /\ UNCHANGED <<host, config, gemini, blockedIPs, blockedRanges, nAdmin, log, copy>>
  /\ UNCHANGED callVars

ParserNext == ParseAIResponse

ParserSpec == ParserInit /\ [][ParserNext]_vars

(***************************************************************************)
(* A program that configures a detector: it constructs one, updates and    *)
(* reads the configuration, writes into the object getConfig gave it, and  *)
(* blocks an address or a range.  It classifies no post.                   *)
(***************************************************************************)
ConfigInit ==
  /\ host = "config"
  /\ \E env \in EnvKeys, c \in InitConfigs :
        /\ config = Merge(DefaultConfig(env), c)
        /\ gemini = GeminiSpamDetector(Merge(DefaultConfig(env), c).geminiApiKey, env)
  /\ blockedIPs = {}
  /\ blockedRanges = <<>>
  /\ pc = "idle"
  /\ post = NoPost
  /\ totalSeverity = 0
  /\ reasons = <<>>
  /\ answer = Absent
  /\ stages = {}
  /\ result = Absent
  /\ status = 0
  /\ nAdmin = 0
  /\ log = <<>>
  /\ verdict = Absent
  /\ copy = Absent

\* const c = detector.getConfig()
GetConfig ==
  /\ host = "config"
  /\ copy' = getConfig(config)
  /\ copy' # copy
  /\ UNCHANGED <<host, config, gemini, blockedIPs, blockedRanges, nAdmin, log, verdict>>
  /\ UNCHANGED callVars

\* Object.assign(c, change) on the object getConfig returned
ChangeCopy(change) ==
  /\ host = "config"
  /\ copy # Absent
  /\ nAdmin < MaxAdmin
  /\ nAdmin' = nAdmin + 1
  /\ copy' = [copy EXCEPT !.object = Merge(copy.object, change)]
  /\ config' = IF copy.own THEN Merge(config, change) ELSE config
  /\ UNCHANGED <<host, gemini, blockedIPs, blockedRanges, log, verdict>>
  /\ UNCHANGED callVars

ConfigNext ==
  \/ \E c \in NewConfigs : UpdateConfig(c)
  \/ GetConfig
  \/ \E c \in CopyChanges : ChangeCopy(c)
  \/ \E ip \in {IpA} : AddIP(ip)
  \/ \E cidr \in {RangeA} : AddRange(cidr)

ConfigSpec == ConfigInit /\ [][ConfigNext]_vars

(***************************************************************************)
(* extractClientIP called on its own with one request, as the tests of     *)
(* IPBlocker do: the call and what it returned are logged.                  *)
(***************************************************************************)
ExtractInit ==
  /\ host = "extractor"
  /\ config = DefaultConfig(Undefined)
  /\ gemini = GeminiSpamDetector(Undefined, Undefined)
  /\ blockedIPs = {}
  /\ blockedRanges = <<>>
  /\ pc = "idle"
  /\ post = NoPost
  /\ totalSeverity = 0
  /\ reasons = <<>>
  /\ answer = Absent
  /\ stages = {}
  /\ result = Absent
  /\ status = 0
  /\ nAdmin = 0
  /\ log = <<>>
  /\ verdict = Absent
  /\ copy = Absent

\* const ip = ipBlocker.extractClientIP(req)
CallExtractClientIP(req) ==
  /\ host = "extractor"
  /\ log = <<>>
  /\ log' = <<[op |-> "extractClientIP", arg |-> req, returned |-> extractClientIP(req)]>>
  /\ UNCHANGED <<host, config, gemini, blockedIPs, blockedRanges, nAdmin, verdict, copy>>
  /\ UNCHANGED callVars

ExtractNext == \E req \in ExtractRequests : CallExtractClientIP(req)

ExtractSpec == ExtractInit /\ [][ExtractNext]_vars

TypeOK ==
  /\ host \in {"library", "server", "blocker", "parser", "config", "extractor"}
  /\ pc \in {"idle", "awaiting", "hung", "done"}
  /\ status \in {0, 200, 403}
  /\ nAdmin \in 0..MaxAdmin
  /\ Len(log) <= MaxOps

(***************************************************************************)
(* Properties of the decision pipeline                                     *)
(***************************************************************************)
\* this step is a call of detectSpam (a request that the middleware answers with
\* 403 never reaches detectSpam)
CallStep == pc = "idle" /\ pc' # "idle" /\ status' # 403

\* this step returns a synthesized decision; config is the Config it was made from
ReturnStep == pc # "done" /\ pc' = "done" /\ "synthesis" \in stages'

\* the origin check of detectSpam finds the origin of p blocked
BlockedOrigin(p) ==
  /\ config.enableIPBlocking
  /\ p.clientIP # <<>>
  /\ validateIP(p.clientIP, blockedIPs, blockedRanges).isBlocked

\* the reason the blocklist gives for the origin of p
ReportedReason(p) ==
  LET v == validateIP(p.clientIP, blockedIPs, blockedRanges)
  IN  v.reason \o Join(v.range)

\* C1: a call of detectSpam with IP blocking enabled and an origin that the
\* blocklist reports as blocked returns at once exactly {isSpam true, confidence 1,
\* reasons [the block reason], action reject} with no analyzer verdict, and runs
\* no stage but the origin check, whatever the text of the post
C1_BlockedOriginShortCircuits ==
  [][(CallStep /\ BlockedOrigin(post'))
       => /\ pc' = "done"
          /\ result' = [isSpam |-> TRUE, confidence |-> One,
                        reasons |-> <<ReportedReason(post')>>,
                        action |-> "reject", aiAnalysis |-> Absent]
          /\ stages' = {"origin"}]_vars

\* a post without text, sent from a blocked address, got only the block reason
C1_Witness ==
  /\ pc = "done"
  /\ stages = {"origin"}
  /\ post.text = TextMissing
  /\ result = [isSpam |-> TRUE, confidence |-> One,
               reasons |-> <<"IP address is in blocklist">>,
               action |-> "reject", aiAnalysis |-> Absent]

\* the text of p violates the validation under cfg
InvalidText(p, cfg) ==
  \/ p.text.t # "string"
  \/ p.text.v = <<>>
  \/ StrLength(p.text.v) > cfg.maxTextLength
  \/ StrLength(Trim(p.text.v)) < cfg.minTextLength

\* the violation messages of p under cfg
ViolationMessages(p, cfg) ==
  IF p.text.t # "string" \/ p.text.v = <<>>
  THEN <<"Post text is required and must be a string">>
  ELSE (IF StrLength(p.text.v) > cfg.maxTextLength
        THEN <<"Post exceeds maximum length of " \o ToString(cfg.maxTextLength)
                 \o " characters">>
        ELSE <<>>)
       \o
       (IF StrLength(Trim(p.text.v)) < cfg.minTextLength
        THEN <<"Post is below minimum length of " \o ToString(cfg.minTextLength)
                 \o " characters">>
        ELSE <<>>)

\* C2: a call of detectSpam whose origin is not blocked and whose text is missing,
\* not a string, empty, longer than maxTextLength or, trimmed, shorter than
\* minTextLength returns reject with isSpam true, confidence 1 and exactly the
\* violation messages as reasons, and evaluates neither the rules nor the analyzer
C2_InvalidPostRejected ==
  [][(CallStep /\ ~BlockedOrigin(post') /\ InvalidText(post', config))
       => /\ pc' = "done"
          /\ result'.action = "reject"
          /\ result'.isSpam
          /\ result'.confidence = One
          /\ result'.reasons = ViolationMessages(post', config)
          /\ result'.aiAnalysis = Absent
          /\ stages' \cap {"rules", "analyzer", "synthesis"} = {}]_vars

\* a post of 300 characters was rejected for its length under the default limit
C2_Witness ==
  /\ pc = "done"
  /\ post.text = TextString(TextLong)
  /\ result # Absent
  /\ result.action = "reject"
  /\ result.reasons = <<"Post exceeds maximum length of 280 characters">>
  /\ "rules" \notin stages

\* the verdict v qualifies for the override: it marks spam with confidence > 0.8
Qualifies(v) == v # Absent /\ v.isSpam /\ NumLess(Num(8, 10), v.confidence)

\* the action the thresholds of cfg give to the rule score
ThresholdAction(total, cfg) ==
  IF total >= cfg.spamThreshold THEN "reject"
  ELSE IF total >= cfg.flagThreshold THEN "flag"
  ELSE "allow"

C4_AnalyzerOverride ==
  [][(ReturnStep /\ Qualifies(result'.aiAnalysis))
       => /\ result'.isSpam
          /\ result'.action # "allow"
          /\ result'.action =
               IF result'.aiAnalysis.severity = "high" THEN "reject"
               ELSE IF totalSeverity' >= config.spamThreshold THEN "reject"
               ELSE "flag"]_vars

\* the verdict {isSpam true, confidence 0.9, severity high} forced reject on a post
\* that triggers no rule
C4_Witness ==
  /\ pc = "done"
  /\ "synthesis" \in stages
  /\ totalSeverity = 0
  /\ result.aiAnalysis # Absent
  /\ result.aiAnalysis.isSpam
  /\ result.aiAnalysis.confidence = Num(9, 10)
  /\ result.aiAnalysis.severity = "high"
  /\ result.isSpam
  /\ result.action = "reject"

\* a decision has been returned
Returned == pc = "done" /\ result # Absent

\* C5: the confidence of every returned decision lies in [0, 1]
C5_ConfidenceInUnitInterval ==
  Returned =>
    /\ ~IsNaN(result.confidence)
    /\ ~NumLess(result.confidence, Zero)
    /\ ~NumLess(One, result.confidence)

\* C6: the reasons of every returned decision with isSpam true are not empty
C6_SpamHasReasons == (Returned /\ result.isSpam) => result.reasons # <<>>

\* C7: every call of detectSpam that waits for the analyzer eventually returns
C7_EveryCallReturns == (pc = "awaiting") ~> (pc = "done")

\* this step resumes detectSpam after the provider call settled
SettleStep == pc = "awaiting" /\ pc' = "done"

\* the provider call failed: it rejected, or its output holds no JSON that parses
Failed(ev) == ev # Absent /\ (ev.type = "error" \/ ev.raw.kind \in {"text", "broken"})

\* r is the decision the rules alone give: rs are the rule reasons
RulesAlone(r, total, rs, cfg) ==
  /\ r.isSpam = (total >= cfg.flagThreshold)
  /\ r.action = ThresholdAction(total, cfg)
  /\ r.confidence = MathMin(Num(total, cfg.spamThreshold), One)
  /\ r.reasons = rs

\* C8 as claimed: after any analyzer failure the decision carries no verdict and
\* is the decision of the rules alone
C8_FailureLeavesNoVerdict ==
  [][(SettleStep /\ Failed(answer'))
       => /\ result'.aiAnalysis = Absent
          /\ RulesAlone(result', totalSeverity, reasons, config)]_vars

\* C8: after any analyzer failure detectSpam returns the decision of the rules
\* alone; it carries no verdict when the provider call rejected, and the fixed
\* fallback verdict when the provider's output holds no JSON object that parses
C8_FailureAbsorbed ==
  [][(SettleStep /\ Failed(answer'))
       => /\ RulesAlone(result', totalSeverity, reasons, config)
          /\ answer'.type = "error" => result'.aiAnalysis = Absent
          /\ answer'.type # "error" =>
               result'.aiAnalysis =
                 [isSpam |-> FALSE, confidence |-> Zero,
                  reasoning |-> "Failed to analyze content with AI",
                  categories |-> <<"analysis_error">>, severity |-> "low"]]_vars

\* a provider call that rejected left a flagged post flagged, with no verdict
C8_Witness ==
  /\ pc = "done"
  /\ answer # Absent
  /\ answer.type = "error"
  /\ result.aiAnalysis = Absent
  /\ totalSeverity = 3
  /\ result.action = "flag"

\* C9: with enableIPBlocking false no call consults the blocklist: a post is not
\* turned away on account of its origin, neither by detectSpam nor on the way
\* through POST /validate-post
C9_DisabledBlockingSkipsBlocklist ==
  [][(pc = "idle" /\ pc' # "idle" /\ ~config.enableIPBlocking)
       => /\ status' # 403
          /\ stages' \cap {"origin", "middleware"} = {}]_vars

\* the verdict v marks spam
MarksSpam(v) == v # Absent /\ v.isSpam

\* C10: the confidence of a synthesized decision is max(min(totalSeverity /
\* spamThreshold, 1), analyzer confidence) when its verdict marks spam, and
\* min(totalSeverity / spamThreshold, 1) when there is no verdict or it does not
C10_ConfidenceCombination ==
  [][ReturnStep
       => result'.confidence =
            IF MarksSpam(result'.aiAnalysis)
            THEN MathMax(MathMin(Num(totalSeverity', config.spamThreshold), One),
                         result'.aiAnalysis.confidence)
            ELSE MathMin(Num(totalSeverity', config.spamThreshold), One)]_vars

\* a verdict that does not mark spam, with confidence 0.9, left the confidence of
\* a post that triggers no rule at 0
C10_Witness ==
  /\ pc = "done"
  /\ "synthesis" \in stages
  /\ result.aiAnalysis # Absent
  /\ ~result.aiAnalysis.isSpam
  /\ result.aiAnalysis.confidence = Num(9, 10)
  /\ totalSeverity = 0
  /\ result.confidence = Zero

(***************************************************************************)
(* Properties of the rule table                                            *)
(***************************************************************************)
\* the rules whose predicate holds on the text
HoldingRules(text) == {k \in DOMAIN spamRules : RuleCheck(k, text)}

\* the sum of the severities of a set of rules
RECURSIVE SeverityOf(_)
SeverityOf(rules) ==
  IF rules = {} THEN 0
  ELSE LET k == CHOOSE r \in rules : TRUE
       IN  spamRules[k].severity + SeverityOf(rules \ {k})

\* the score when the rules are evaluated one after the other in the given order
RECURSIVE ScoreInOrder(_, _)
ScoreInOrder(order, text) ==
  IF order = <<>> THEN 0
  ELSE (IF RuleCheck(Head(order), text) THEN spamRules[Head(order)].severity ELSE 0)
         + ScoreInOrder(Tail(order), text)

\* some orders of evaluation: the table backwards, rotated, and interleaved
RuleOrders ==
  { <<10, 9, 8, 7, 6, 5, 4, 3, 2, 1>>,
    <<5, 6, 7, 8, 9, 10, 1, 2, 3, 4>>,
    <<1, 3, 5, 7, 9, 2, 4, 6, 8, 10>>,
    <<9, 1, 10, 5, 2, 8, 4, 7, 3, 6>> }

\* C11: for every post that passes validation, totalSeverity is the sum of the
\* severities of exactly the rules whose predicate holds on the post, and
\* evaluating the ten rules in any other order gives the same sum
C11_SeverityIsOrderFreeSum ==
  [][(CallStep /\ "rules" \in stages')
       => /\ totalSeverity' = SeverityOf(HoldingRules(post'.text.v))
          /\ \A order \in RuleOrders :
               ScoreInOrder(order, post'.text.v) = totalSeverity']_vars

\* a post that is loud and carries a spam keyword scored 3 + 5
C11_Witness ==
  /\ pc = "done"
  /\ "rules" \in stages
  /\ post.text = TextString(TextSpam)
  /\ HoldingRules(post.text.v) = {1, 5}
  /\ totalSeverity = 8

(***************************************************************************)
(* Properties of the blocklist, over the calls made on a blocker           *)
(***************************************************************************)
\* the calls that touch the exact entry of ip: addIP(ip), removeIP(ip), clearAll
Touches(ip) ==
  {i \in DOMAIN log :
     \/ log[i].op = "clearAll"
     \/ log[i].op \in {"addIP", "removeIP"} /\ log[i].arg = ip}

LastTouch(ip) == CHOOSE i \in Touches(ip) : \A j \in Touches(ip) : j <= i

\* addIP(ip) has returned true and the entry has not been taken out since
Added(ip) ==
  /\ Touches(ip) # {}
  /\ log[LastTouch(ip)].op = "addIP"
  /\ log[LastTouch(ip)].returned

\* removeIP(ip) has been called after addIP(ip) returned true, and no addIP(ip) since
Removed(ip) ==
  /\ Touches(ip) # {}
  /\ log[LastTouch(ip)].op = "removeIP"
  /\ \E i \in Touches(ip) : log[i].op = "addIP" /\ log[i].returned

\* what validateIP(ip) reports now
Report(ip) == validateIP(ip, blockedIPs, blockedRanges)

ValidAddresses == {ip \in BlockerIPs : isValidIP(ip)}

\* C12 as claimed: once addIP(ip) has returned true validateIP(ip) reports blocked,
\* and once removeIP(ip) has then been called it reports not blocked
C12_BlockThenUnblock ==
  \A ip \in ValidAddresses :
     /\ Added(ip) => Report(ip).isBlocked
     /\ Removed(ip) => ~Report(ip).isBlocked

\* C12: once addIP(ip) has returned true validateIP(ip) reports blocked; once
\* removeIP(ip) has then been called it reports blocked exactly when a range of
\* the list still contains the address, and then for that range
C12_UnblockLeavesRanges ==
  \A ip \in ValidAddresses :
     /\ Added(ip) => Report(ip).isBlocked
     /\ Removed(ip) =>
          /\ Report(ip).isBlocked
               <=> \E i \in DOMAIN blockedRanges : isIPInRange(ip, blockedRanges[i])
          /\ Report(ip).isBlocked => Report(ip).range \in Range(blockedRanges)

\* an address was blocked, unblocked, and is still reported blocked by a range
C12_Witness ==
  /\ log = << [op |-> "addRange", arg |-> RangeWide, returned |-> TRUE],
              [op |-> "addIP", arg |-> IpA, returned |-> TRUE],
              [op |-> "removeIP", arg |-> IpA, returned |-> TRUE] >>
  /\ Report(IpA).isBlocked
  /\ Report(IpA).range = RangeWide

\* the 8 bits of an octet, highest first
Bits8(n) == [i \in 1..8 |-> (n \div Pow2(8 - i)) % 2]

\* the 32 bits of a dotted IPv4 address, highest first
AddressBits(ip) ==
  LET parts == Split(ip, ".")
  IN  Bits8(DecValue(parts[1])) \o Bits8(DecValue(parts[2]))
        \o Bits8(DecValue(parts[3])) \o Bits8(DecValue(parts[4]))

\* cidr is n/p with n a valid IPv4 address and p decimal digits
IPv4Range(cidr) ==
  LET parts == Split(cidr, "/")
  IN  /\ Len(parts) = 2
      /\ IsIPv4(parts[1])
      /\ parts[2] # <<>>
      /\ \A i \in DOMAIN parts[2] : parts[2][i] \in Digit

\* the top p bits of a equal the top p bits of n, for cidr = n/p
TopBitsAgree(a, cidr) ==
  LET parts == Split(cidr, "/")
      p == DecValue(parts[2])
  IN  SubSeq(AddressBits(a), 1, p) = SubSeq(AddressBits(parts[1]), 1, p)

\* IPv4 addresses to look up
IPv4Probes ==
  { IpA, IpB,
    <<"1","9","2",".","1","6","8",".","1",".","2","5","4">>,
    <<"1","9","2",".","1","6","8",".","2",".","1">>,
    <<"0",".","0",".","0",".","0">>,
    <<"2","5","5",".","2","5","5",".","2","5","5",".","2","5","5">> }

\* C13: a valid IPv4 address is matched by a blocked IPv4 range n/p exactly when
\* its top p bits equal the top p bits of n; in particular a /0 matches every
\* IPv4 address
C13_PrefixDecidesContainment ==
  \A i \in DOMAIN blockedRanges :
     IPv4Range(blockedRanges[i]) =>
       \A a \in IPv4Probes :
          validateIP(a, {}, <<blockedRanges[i]>>).isBlocked
            <=> TopBitsAgree(a, blockedRanges[i])

\* cidr has exactly one '/', a valid address before it, and after it an integer
\* within 0..32 for an IPv4 address, 0..128 for an IPv6 address
WellFormedRange(cidr) ==
  LET parts == Split(cidr, "/")
  IN  /\ Len(parts) = 2
      /\ isValidIP(parts[1])
      /\ parts[2] # <<>>
      /\ \A i \in DOMAIN parts[2] : parts[2][i] \in Digit
      /\ Len(parts[2]) <= 3
      /\ DecValue(parts[2]) <= (IF IsIPv4(parts[1]) THEN 32 ELSE 128)

\* C14: addRange accepts a string exactly when it has one '/', a valid address
\* before it and an integer prefix length within the bounds of the address family
C14_AddRangeAcceptsWellFormed ==
  \A i \in DOMAIN log :
     log[i].op = "addRange" => (log[i].returned <=> WellFormedRange(log[i].arg))

\* addresses that are empty, missing or not of a valid form
InvalidProbes ==
  { <<>>, IpBad, IpOver,
    <<"1","9","2",".","1","6","8",".","1">>,
    <<"1","9","2",".","1","6","8",".","1",".","1"," ">>,
    <<"2","0","0","1",":","d","b","8",":",":","1">> }

\* C15: for an empty, missing or syntactically invalid address validateIP reports
\* not blocked and gives no reason, whatever the blocklist contains
C15_InvalidAddressFailsOpen ==
  \A ip \in InvalidProbes :
     /\ ~isValidIP(ip)
     /\ Report(ip) = [isBlocked |-> FALSE, reason |-> "", range |-> <<>>]

\* 192.168.1.256 is let through while 192.168.1.1 and 192.168.0.0/16 are blocked
C15_Witness ==
  /\ IpA \in blockedIPs
  /\ RangeWide \in Range(blockedRanges)
  /\ Report(IpA).isBlocked
  /\ ~Report(IpOver).isBlocked

\* the calls that take the range r out of the list: removeRange(r) and clearAll
Resets(r) ==
  {i \in DOMAIN log :
     \/ log[i].op = "clearAll"
     \/ log[i].op = "removeRange" /\ log[i].arg = r}

\* the accepted addRange(r) calls made since r was last taken out
LiveAdds(r) ==
  {i \in DOMAIN log :
     /\ log[i].op = "addRange" /\ log[i].arg = r /\ log[i].returned
     /\ \A j \in Resets(r) : j < i}

\* the call that put r into the list
AddedAt(r) == CHOOSE i \in LiveAdds(r) : \A j \in LiveAdds(r) : i <= j

\* the ranges of the list that contain ip
Containing(ip) ==
  {blockedRanges[i] : i \in {j \in DOMAIN blockedRanges : isIPInRange(ip, blockedRanges[j])}}

\* the range added earliest among those that contain ip
EarliestContaining(ip) ==
  CHOOSE r \in Containing(ip) : \A q \in Containing(ip) : AddedAt(r) <= AddedAt(q)

\* C16: an address in the exact set gets the fixed reason even when a blocked
\* range contains it; an address matched only by ranges gets the reason naming
\* the range added earliest among those still in the list, where a range that was
\* removed and added again counts from its latest addition
C16_ExactFirstThenEarliestRange ==
  \A ip \in {IpA, IpB} :
     /\ ip \in blockedIPs =>
          Report(ip) = [isBlocked |-> TRUE, reason |-> "IP address is in blocklist",
                        range |-> <<>>]
     /\ (ip \notin blockedIPs /\ Containing(ip) # {}) =>
          Report(ip) = [isBlocked |-> TRUE,
                        reason |-> "IP address is in blocked range: ",
                        range |-> EarliestContaining(ip)]

\* 192.168.1.0/24 was added first, removed and added again after 192.168.0.0/16:
\* the wider range is the one reported
C16_Witness ==
  /\ log = << [op |-> "addRange", arg |-> RangeA, returned |-> TRUE],
              [op |-> "addRange", arg |-> RangeWide, returned |-> TRUE],
              [op |-> "removeRange", arg |-> RangeA, returned |-> TRUE],
              [op |-> "addRange", arg |-> RangeA, returned |-> TRUE] >>
  /\ blockedRanges = <<RangeWide, RangeA>>
  /\ Report(IpA).range = RangeWide

\* the list holds no range twice
NoDuplicates(ranges) ==
  \A i, j \in DOMAIN ranges : ranges[i] = ranges[j] => i = j

\* the call made by this step does not apply to the blocklist it finds
DoesNotApply(c) ==
  \/ c.op = "addIP" /\ ~isValidIP(c.arg)
  \/ c.op = "addRange" /\ ~isValidCIDR(c.arg)
  \/ c.op = "removeIP" /\ c.arg \notin blockedIPs
  \/ c.op = "removeRange" /\ c.arg \notin Range(blockedRanges)

NonNumeric(v) ==
  \/ v.t = "undef"
  \/ v.t = "str" /\ \E i \in DOMAIN v.s : v.s[i] \in Upper \cup Lower

\* v is a verdict with every field of its type and within its range
WellFormedVerdict(v) ==
  /\ v.isSpam \in BOOLEAN
  /\ ~IsNaN(v.confidence)
  /\ ~NumLess(v.confidence, Zero)
  /\ ~NumLess(One, v.confidence)
  /\ v.reasoning \in STRING
  /\ DOMAIN v.categories = 1..Len(v.categories)
  /\ \A i \in DOMAIN v.categories : v.categories[i] \in STRING
  /\ v.severity \in {"low", "medium", "high"}

\* C18: a verdict made from raw provider output is the fixed fallback verdict when
\* the output holds no JSON object that parses; otherwise isSpam is a boolean,
\* confidence a number within [0, 1] and 0 when the field was not numeric,
\* reasoning a string, categories a list that is empty when the field was no
\* list, and severity low, medium or high, low when the field was anything else
C18_VerdictWellFormed ==
  verdict # Absent =>
    IF answer.raw.kind # "json"
    THEN verdict = [isSpam |-> FALSE, confidence |-> Zero,
                    reasoning |-> "Failed to analyze content with AI",
                    categories |-> <<"analysis_error">>, severity |-> "low"]
    ELSE /\ WellFormedVerdict(verdict)
         /\ NonNumeric(answer.raw.confidence) => verdict.confidence = Zero
         /\ answer.raw.categories.t # "list" => verdict.categories = <<>>
         /\ verdict.severity =
              IF /\ answer.raw.severity.t = "str"
                 /\ answer.raw.severity.s
                      \in {<<"l","o","w">>, <<"m","e","d","i","u","m">>, <<"h","i","g","h">>}
              THEN Join(answer.raw.severity.s)
              ELSE "low"

\* the output {isSpam "true", confidence "1.5", reasoning null, categories
\* "not-an-array", severity "invalid"} became a spam verdict of confidence 1, no
\* categories and severity low
C18_Witness ==
  /\ answer = [type |-> "response",
               raw |-> RawJson(JStr(<<"t","r","u","e">>), JStr(<<"1",".","5">>), JNull,
                               JStr(<<"n","o","t","-","a","n","-","a","r","r","a","y">>),
                               JStr(<<"i","n","v","a","l","i","d">>))]
  /\ verdict # Absent
  /\ verdict.isSpam
  /\ verdict.confidence = One
  /\ verdict.categories = <<>>
  /\ verdict.severity = "low"

(***************************************************************************)
(* Properties of the configuration                                         *)
(***************************************************************************)
\* C19: updateConfig(partial) gives every field supplied in partial the supplied
\* value and leaves every other field of the configuration, and the blocklist,
\* as they were; writing into the object that getConfig returned changes that
\* object and not the detector's configuration
C19_UpdateIsShallowMerge ==
  [][/\ \A partial \in NewConfigs :
          UpdateConfig(partial) =>
            /\ DOMAIN config' = DOMAIN config
            /\ \A f \in DOMAIN partial : config'[f] = partial[f]
            /\ \A f \in DOMAIN config \ DOMAIN partial : config'[f] = config[f]
            /\ blockedIPs' = blockedIPs
            /\ blockedRanges' = blockedRanges
     /\ \A change \in CopyChanges :
          ChangeCopy(change) =>
            /\ config' = config
            /\ \A f \in DOMAIN change : copy'.object[f] = change[f]]_vars

\* after updateConfig({spamThreshold: 0}) on a detector with a blocked address the
\* caller set spamThreshold to 99 in the object getConfig gave it: the detector
\* still has 0, its other fields and the blocklist are as before
C19_Witness ==
  /\ host = "config"
  /\ nAdmin = MaxAdmin
  /\ config.spamThreshold = 0
  /\ config.flagThreshold = 3
  /\ copy # Absent
  /\ copy.object.spamThreshold = 99

\* C20: the adapter is configured only while the configuration holds a non-empty
\* credential: a credential supplied to updateConfig becomes the adapter's, and
\* with an empty or absent credential in the configuration the adapter is not
\* configured and detectSpam does not call the analyzer
C20_ConfiguredOnlyWithCredential ==
  [][/\ isConfigured(gemini') => Truthy(config'.geminiApiKey)
     /\ \A partial \in NewConfigs :
          (UpdateConfig(partial) /\ "geminiApiKey" \in DOMAIN partial
             /\ Truthy(partial.geminiApiKey))
            => gemini'.apiKey = partial.geminiApiKey
     /\ (CallStep /\ "analyzer" \in stages') => Truthy(config.geminiApiKey)]_vars

(***************************************************************************)
(* Properties of calls that overlap administration                         *)
(***************************************************************************)
\* the exact-address set or a range of the list, as they are now, hold ip
OnBlocklist(ip) ==
  /\ isValidIP(ip)
  /\ \/ ip \in blockedIPs
     \/ \E i \in DOMAIN blockedRanges : isIPInRange(ip, blockedRanges[i])

\* r is the decision that the thresholds of the one configuration cfg give to the
\* rule score total and the verdict of r
FromOneConfig(r, total, cfg) ==
  /\ r.confidence =
       IF MarksSpam(r.aiAnalysis)
       THEN MathMax(MathMin(Num(total, cfg.spamThreshold), One), r.aiAnalysis.confidence)
       ELSE MathMin(Num(total, cfg.spamThreshold), One)
  /\ r.isSpam = (Qualifies(r.aiAnalysis) \/ total >= cfg.flagThreshold)
  /\ r.action =
       IF Qualifies(r.aiAnalysis)
       THEN IF r.aiAnalysis.severity = "high" \/ total >= cfg.spamThreshold
            THEN "reject" ELSE "flag"
       ELSE ThresholdAction(total, cfg)

\* C21: whatever updateConfig, addIP, removeIP, addRange, removeRange and clearAll
\* do around a call and while it is suspended in the analyzer, the confidence,
\* isSpam and action of its decision come from the thresholds of one Config state,
\* the one current when the call resumes and returns, and its origin check turns
\* the post away exactly when the exact-address set or the range list of the one
\* blocklist state current at the call hold the origin
C21_ConsistentSnapshot ==
  [][/\ ReturnStep => FromOneConfig(result', totalSeverity', config)
     /\ (CallStep /\ config.enableIPBlocking /\ post'.clientIP # <<>>)
          => /\ "origin" \in stages'
             /\ (pc' = "done" /\ stages' = {"origin"}) <=> OnBlocklist(post'.clientIP)]_vars

\* a call passed the origin check and went to the analyzer; its address was
\* blocked afterwards and the thresholds were set to 1 and 1: the decision for a
\* rule score of 1 is spam and reject, by the two thresholds of that update
C21_Witness ==
  /\ pc = "done"
  /\ {"origin", "analyzer", "synthesis"} \subseteq stages
  /\ post.clientIP = IpA
  /\ IpA \in blockedIPs
  /\ config.enableIPBlocking
  /\ nAdmin = 2
  /\ config.spamThreshold = 1
  /\ config.flagThreshold = 1
  /\ totalSeverity = 1
  /\ ~Qualifies(result.aiAnalysis)
  /\ result.isSpam
  /\ result.action = "reject"
  /\ result.confidence = One

(***************************************************************************)
(* Properties of the blocklist for IPv6 addresses                          *)
(***************************************************************************)
\* the valid IPv6 addresses handed to addIP
IPv6Addresses == {ip \in ValidAddresses : ":" \in Range(ip)}

\* C22: exact addresses are held and matched case-normalized: every entry of the
\* exact set is in lower case; once addIP of an IPv6 address written in upper case
\* has returned true, validateIP of the address written in lower case reports it
\* blocked, and removeIP of the address written in lower case returns true and
\* takes the entry out
C22_ExactMatchIgnoresCase ==
  /\ \A ip \in blockedIPs : ip = ToLowerCase(ip)
  /\ \A ip \in IPv6Addresses :
        Added(ip) =>
          /\ Report(ToLowerCase(ip)).isBlocked
          /\ removeIP(ToLowerCase(ip), blockedIPs).returned
          /\ ip \notin removeIP(ToLowerCase(ip), blockedIPs).blockedIPs

(***************************************************************************)
(* Properties of extractClientIP                                           *)
(***************************************************************************)
\* the text of s before its first comma, without the blanks around it
FirstEntry(s) ==
  LET commas == {i \in DOMAIN s : s[i] = ","}
      stop == IF commas = {} THEN Len(s) + 1
              ELSE CHOOSE i \in commas : \A j \in commas : i <= j
  IN  Trim(SubSeq(s, 1, stop - 1))

\* the origin of req when the first source that holds among hasForwarded, hasRealIP
\* and hasCf decides, then the remote address, then null
ByPrecedence(req, hasForwarded, hasRealIP, hasCf) ==
  IF hasForwarded THEN FirstEntry(req.forwarded)
  ELSE IF hasRealIP THEN req.realIP
  ELSE IF hasCf THEN req.cfConnectingIP
  ELSE req.remoteAddress

\* C23 as claimed: the first entry of x-forwarded-for if the request carries that
\* header, otherwise x-real-ip if it carries that, otherwise cf-connecting-ip if
\* it carries that, otherwise the remote address, otherwise null
C23_PrecedenceByPresence ==
  \A i \in DOMAIN log :
     log[i].op = "extractClientIP" =>
       log[i].returned =
         ByPrecedence(log[i].arg, "x-forwarded-for" \in log[i].arg.sent,
                      "x-real-ip" \in log[i].arg.sent,
                      "cf-connecting-ip" \in log[i].arg.sent)

\* C23: extractClientIP returns, unvalidated, the first trimmed entry of
\* x-forwarded-for if the request carries that header with a value that is not
\* empty, otherwise x-real-ip if that is carried and not empty, otherwise
\* cf-connecting-ip if that is carried and not empty, otherwise the remote
\* address, otherwise null; a header carried with an empty value counts as absent
C23_PrecedenceByValue ==
  \A i \in DOMAIN log :
     log[i].op = "extractClientIP" =>
       log[i].returned =
         ByPrecedence(log[i].arg,
                      "x-forwarded-for" \in log[i].arg.sent /\ log[i].arg.forwarded # <<>>,
                      "x-real-ip" \in log[i].arg.sent /\ log[i].arg.realIP # <<>>,
                      "cf-connecting-ip" \in log[i].arg.sent
                         /\ log[i].arg.cfConnectingIP # <<>>)

\* a request with 'x-forwarded-for: 192.168.1.1, 10.0.0.5', an x-real-ip, a
\* cf-connecting-ip and a remote address gave 192.168.1.1
C23_Witness ==
  /\ Len(log) = 1
  /\ log[1].op = "extractClientIP"
  /\ log[1].arg.sent = HeaderNames
  /\ Len(log[1].arg.forwarded) > Len(IpA)
  /\ Head(log[1].arg.forwarded) = "1"
  /\ log[1].arg.realIP = IpB
  /\ log[1].arg.cfConnectingIP = IpA
  /\ log[1].arg.remoteAddress = IpB
  /\ log[1].returned = IpA

(***************************************************************************)
(* Properties of the analyzer's configuration display                      *)
(***************************************************************************)
\* keys an adapter may be constructed with
DisplayKeys ==
  {"env-key", "test-key", "invalid-key", "invalid-key-2", "test-api-key-1234567890"}

\* the string d holds the string k
Reveals(d, k) ==
  \E i \in 1..(Len(d) - Len(k) + 1) : SubSeq(d, i, i + Len(k) - 1) = k

\* C24: the credential in the configuration display of a configured adapter is
\* the first 8 characters of its key followed by '...'; a key that agrees with it
\* on the first 8 characters gives the same display; and the display does not
\* hold the full key
C24_DisplayRedactsKey ==
  isConfigured(gemini) =>
    LET display == GeminiGetConfig(gemini).apiKey
    IN  /\ display = Substring0(gemini.apiKey, 8) \o "..."
        /\ \A k \in DisplayKeys :
              Substring0(k, 8) = Substring0(gemini.apiKey, 8)
                => GeminiGetConfig(GeminiSpamDetector(k, Undefined)).apiKey = display
        /\ ~Reveals(display, gemini.apiKey)

(***************************************************************************)
(* Properties of the analyzer call                                         *)
(***************************************************************************)
\* C25: a call of detectSpam calls the analyzer exactly when analyzer detection is
\* enabled in Config, the adapter is configured, the origin is not blocked and
\* the post is valid, and then only after the origin check (when there is one) and
\* the validation; in every other case the call returns at once a Decision
\* without analyzer verdict, and no provider answer ever reaches such a call
C25_AnalyzerOnlyWhenEnabledAndReady ==
  [][/\ CallStep =>
          /\ "analyzer" \in stages'
               <=> /\ config.enableAIDetection
                   /\ isConfigured(gemini)
                   /\ ~BlockedOrigin(post')
                   /\ ~InvalidText(post', config)
          /\ "analyzer" \in stages' =>
               /\ pc' = "awaiting"
               /\ "validation" \in stages'
               /\ (config.enableIPBlocking /\ post'.clientIP # <<>>) => "origin" \in stages'
          /\ "analyzer" \notin stages' =>
               /\ pc' = "done"
               /\ result'.aiAnalysis = Absent
     /\ answer' # Absent => "analyzer" \in stages'
     /\ (pc' = "done" /\ result' # Absent /\ result'.aiAnalysis # Absent)
          => "analyzer" \in stages']_vars

\* a detector constructed with the analyzer enabled and a key called the analyzer
\* after origin check and validation, and its decision carries the verdict
C25_Witness ==
  /\ pc = "done"
  /\ nAdmin = 0
  /\ config.enableAIDetection
  /\ isConfigured(gemini)
  /\ stages = {"origin", "validation", "rules", "analyzer", "synthesis"}
  /\ result.aiAnalysis # Absent

(***************************************************************************)
(* Properties of the reasons                                               *)
(***************************************************************************)
\* the descriptions of the rules that hold on the text, by rising table position
TableOrderDescriptions(text) ==
  LET holding == HoldingRules(text)
      at(i) == CHOOSE k \in holding : Cardinality({j \in holding : j <= k}) = i
  IN  [i \in 1..Cardinality(holding) |-> spamRules[at(i)].description]

\* the verdict v marks spam with confidence > 0.7
Reported(v) == v # Absent /\ v.isSpam /\ NumLess(Num(7, 10), v.confidence)

\* C26: the reasons of every synthesized decision are the descriptions of exactly
\* the triggered rules, in rule-table order, followed by the one analyzer reason
\* 'AI detected spam: <reasoning>' as last element iff the decision has a verdict
\* that marks spam with confidence > 0.7; nothing else is in them
C26_ReasonsAreRulesThenAnalyzer ==
  [][ReturnStep
       => result'.reasons =
            TableOrderDescriptions(post'.text.v)
              \o (IF Reported(result'.aiAnalysis)
                  THEN <<"AI detected spam: " \o result'.aiAnalysis.reasoning>>
                  ELSE <<>>)]_vars

\* a short post with a verdict of spam at confidence 0.75 is not spam and is
\* allowed, yet carries the rule's description and then the analyzer's reason
C26_Witness ==
  /\ pc = "done"
  /\ "synthesis" \in stages
  /\ result.aiAnalysis # Absent
  /\ result.aiAnalysis.isSpam
  /\ result.aiAnalysis.confidence = Num(75, 100)
  /\ ~result.isSpam
  /\ result.action = "allow"
  /\ result.reasons = <<"Post is too short to be meaningful", "AI detected spam: spam">>

(***************************************************************************)
(* Properties of the two severity scales                                   *)
(***************************************************************************)
\* C27: the analyzer's severity and confidence are never added to the rule score:
\* the score is the same after the analyzer call as before it, and when the
\* verdict of a synthesized decision does not qualify for the override (no
\* verdict, not spam, or confidence <= 0.8, whatever the severity) its isSpam and
\* action are those the thresholds give to the rule score, the same as for the
\* post with no verdict at all
C27_AnalyzerNeverAddsToScore ==
  [][/\ SettleStep => totalSeverity' = totalSeverity
     /\ (ReturnStep /\ ~Qualifies(result'.aiAnalysis))
          => /\ result'.isSpam = (totalSeverity' >= config.flagThreshold)
             /\ result'.action = ThresholdAction(totalSeverity', config)]_vars

\* a verdict of spam with confidence 0.75 and severity high left a post of rule
\* score 1 not spam and allowed under thresholds 6 and 3
C27_Witness ==
  /\ pc = "done"
  /\ "synthesis" \in stages
  /\ result.aiAnalysis # Absent
  /\ result.aiAnalysis.isSpam
  /\ result.aiAnalysis.confidence = Num(75, 100)
  /\ result.aiAnalysis.severity = "high"
  /\ totalSeverity = 1
  /\ config.spamThreshold = 6
  /\ config.flagThreshold = 3
  /\ ~result.isSpam
  /\ result.action = "allow"

\* cidr is n/p with n a valid IPv6 address and p decimal digits
IPv6Range(cidr) ==
  LET parts == Split(cidr, "/")
  IN  /\ Len(parts) = 2
      /\ IsIPv6(parts[1])
      /\ parts[2] # <<>>
      /\ \A i \in DOMAIN parts[2] : parts[2][i] \in Digit

\* the hexadecimal digits of an IPv6 address in full form, without the colons
HexDigitsOf(ip) == SelectChars(expandIPv6(ip), HexDigit)

\* the leading floor(p/4) hexadecimal digits of a and of n agree, for cidr = n/p
LeadingHexAgree(a, cidr) ==
  LET parts == Split(cidr, "/")
      count == DecValue(parts[2]) \div 4
  IN  Substring0(HexDigitsOf(a), count) = Substring0(HexDigitsOf(parts[1]), count)

\* IPv6 addresses to look up
IPv6Probes == {<<":",":">>, <<":",":","1">>, Ip6Upper, ToLowerCase(Ip6Upper)}

\* C28: a valid IPv6 address is matched by a blocked IPv6 range n/p exactly when
\* the leading floor(p/4) hexadecimal digits of the address and of n, both in full
\* 8-group form, are equal; an IPv4 address is never matched by an IPv6 range,
\* nor an IPv6 address by an IPv4 range
C28_LeadingHexDigitsDecide ==
  \A i \in DOMAIN blockedRanges :
     /\ IPv6Range(blockedRanges[i]) =>
          /\ \A a \in IPv6Probes :
                validateIP(a, {}, <<blockedRanges[i]>>).isBlocked
                  <=> LeadingHexAgree(a, blockedRanges[i])
          /\ \A a \in IPv4Probes : ~validateIP(a, {}, <<blockedRanges[i]>>).isBlocked
     /\ IPv4Range(blockedRanges[i]) =>
          \A a \in IPv6Probes : ~validateIP(a, {}, <<blockedRanges[i]>>).isBlocked

(***************************************************************************)
(* Properties of every returned decision                                   *)
(***************************************************************************)
\* C29: in every decision detectSpam returns, isSpam is true exactly when the
\* action is flag or reject, and false exactly when the action is allow
C29_SpamIffNotAllowed ==
  Returned => (result.isSpam <=> result.action \in {"flag", "reject"})

\* what the provider call of a suspended detectSpam may settle with
Settlements ==
  {[type |-> "error", raw |-> RawText]}
    \cup {[type |-> "response", raw |-> raw] : raw \in RawOutputs}

\* the decision the suspended call returns if the provider call settles with ev
\* now, the configuration being cfg
Pending(ev, total, rs, cfg) == detectSpamResume(total, rs, analyzeSpam(ev), cfg)

\* C30: each decision is made against the Config that was current when detectSpam
\* was called: whatever happens while the call is suspended in the analyzer, an
\* updateConfig included, the decision the call returns for each way the provider
\* call may settle stays the one it would have returned before
C30_DecisionFromConfigAtCall ==
  [][(pc = "awaiting" /\ pc' = "awaiting")
       => \A ev \in Settlements :
             Pending(ev, totalSeverity', reasons', config')
               = Pending(ev, totalSeverity, reasons, config)]_vars

====
